---- MODULE Spec2Model ----
(***************************************************************************)
(* A model of ast_decompiler (src/ast_decompiler/decompiler.py): the       *)
(* Decompiler visitor that turns a Python 2 AST back into source text.     *)
(*                                                                         *)
(* The recursive traversal is modelled as a machine with an explicit       *)
(* continuation `ctl`: the steps that the open handlers still have to run, *)
(* innermost first.  A visit_X action is the entry of the handler visit_X: *)
(* it pushes the node on node_stack (Decompiler.visit) and schedules the   *)
(* handler's body; the writer primitives (write, write_indentation,        *)
(* write_newline, add_indentation, write_expression_list) are actions of   *)
(* their own.  Text is kept as the code keeps it: current_line is the list *)
(* of strings written so far, a closed line is that list plus "\n".        *)
(***************************************************************************)
EXTENDS Integers, Sequences, FiniteSets, TLC

VARIABLES
    tree,                  \* the AST handed to decompile()
    indentation,           \* Decompiler.indentation (columns per level)
    max_line_length,       \* Decompiler.max_line_length
    lines,                 \* Decompiler.lines: completed lines
    current_line,          \* Decompiler.current_line: strings of the open line
    current_indentation,   \* Decompiler.current_indentation
    node_stack,            \* Decompiler.node_stack: entries [node, path]
    has_unicode_literals,  \* Decompiler.has_unicode_literals
    ctl,                   \* continuation: pending steps of the open handlers
    exc,                   \* the exception in flight ("none" when there is none)
    pc,                    \* "run" | "done" | "raised": position in decompile()
    result,                \* what decompile() returned (NoResult before / on raise)
    hist                   \* observation log of the traversal (never read by the code)

vars == <<tree, indentation, max_line_length, lines, current_line,
          current_indentation, node_stack, has_unicode_literals, ctl, exc, pc,
          result, hist>>

----------------------------------------------------------------------------
(* Bounds of the model.                                                    *)

\* longest generated delimited list (elements)
MaxElts == 3
\* deepest generated elif chain
MaxChain == 3
\* the narrow line widths tried besides the default are NarrowBase .. NarrowBase + NarrowSpan
NarrowSpan == 1

\* decompile(ast, indentation=4, line_length=100)
DefaultIndentation == 4
DefaultLineLength == 100
\* a narrow width that makes short lists overflow
NarrowBase == 12

NoResult == <<"<no result>">>
NoNode == [kind |-> "None"]

----------------------------------------------------------------------------
(* Generic helpers.                                                        *)

RECURSIVE SumLen(_)
SumLen(strs) == IF strs = <<>> THEN 0 ELSE Len(Head(strs)) + SumLen(Tail(strs))

RECURSIVE Spaces(_)
Spaces(n) == IF n <= 0 THEN "" ELSE " " \o Spaces(n - 1)

RECURSIVE Flatten(_)
Flatten(ls) == IF ls = <<>> THEN <<>> ELSE Head(ls) \o Flatten(Tail(ls))

Last(s) == s[Len(s)]
Front(s) == SubSeq(s, 1, Len(s) - 1)

IsNone(n) == n = NoNode

----------------------------------------------------------------------------
(* AST nodes (the ast module's node classes, Python 2).  A node is a       *)
(* record with its class name in `kind` and the class's fields.  An        *)
(* optional child that is None is NoNode; an optional string that is None  *)
(* is "".  Object identity of a node (the code's `node is parent.body`)    *)
(* is its path from the root: a sequence of <<field, index>> pairs.        *)

Module(body) == [kind |-> "Module", body |-> body]
Interactive(body) == [kind |-> "Interactive", body |-> body]
Expression(body) == [kind |-> "Expression", body |-> body]
\* node classes for which Decompiler defines no visit_ method
Suite(body) == [kind |-> "Suite", body |-> body]
Starred(value) == [kind |-> "Starred", value |-> value]

FunctionDef(name, args, body, decorator_list) ==
    [kind |-> "FunctionDef", name |-> name, args |-> args, body |-> body,
     decorator_list |-> decorator_list]
ClassDef(name, bases, body, decorator_list) ==
    [kind |-> "ClassDef", name |-> name, bases |-> bases, body |-> body,
     decorator_list |-> decorator_list]
Return(value) == [kind |-> "Return", value |-> value]
Delete(targets) == [kind |-> "Delete", targets |-> targets]
Assign(targets, value) == [kind |-> "Assign", targets |-> targets, value |-> value]
AugAssign(target, op, value) ==
    [kind |-> "AugAssign", target |-> target, op |-> [kind |-> op], value |-> value]
PrintStmt(dest, values, nl) ==
    [kind |-> "Print", dest |-> dest, values |-> values, nl |-> nl]
For(target, iter, body, orelse) ==
    [kind |-> "For", target |-> target, iter |-> iter, body |-> body, orelse |-> orelse]
While(test, body, orelse) ==
    [kind |-> "While", test |-> test, body |-> body, orelse |-> orelse]
If(test, body, orelse) == [kind |-> "If", test |-> test, body |-> body, orelse |-> orelse]
With(context_expr, optional_vars, body) ==
    [kind |-> "With", context_expr |-> context_expr, optional_vars |-> optional_vars,
     body |-> body]
Raise(type, inst, tback) == [kind |-> "Raise", type |-> type, inst |-> inst, tback |-> tback]
TryExcept(body, handlers, orelse) ==
    [kind |-> "TryExcept", body |-> body, handlers |-> handlers, orelse |-> orelse]
TryFinally(body, finalbody) == [kind |-> "TryFinally", body |-> body, finalbody |-> finalbody]
AssertStmt(test, msg) == [kind |-> "Assert", test |-> test, msg |-> msg]
Import(names) == [kind |-> "Import", names |-> names]
ImportFrom(module, names, level) ==
    [kind |-> "ImportFrom", module |-> module, names |-> names, level |-> level]
Exec(body, globals, locals) ==
    [kind |-> "Exec", body |-> body, globals |-> globals, locals |-> locals]
Global(names) == [kind |-> "Global", names |-> names]
Expr(value) == [kind |-> "Expr", value |-> value]
Pass == [kind |-> "Pass"]
Break == [kind |-> "Break"]
Continue == [kind |-> "Continue"]

BoolOp(op, values) == [kind |-> "BoolOp", op |-> [kind |-> op], values |-> values]
BinOp(left, op, right) ==
    [kind |-> "BinOp", left |-> left, op |-> [kind |-> op], right |-> right]
UnaryOp(op, operand) == [kind |-> "UnaryOp", op |-> [kind |-> op], operand |-> operand]
Lambda(args, body) == [kind |-> "Lambda", args |-> args, body |-> body]
IfExp(test, body, orelse) ==
    [kind |-> "IfExp", test |-> test, body |-> body, orelse |-> orelse]
Dict(keys, values) == [kind |-> "Dict", keys |-> keys, values |-> values]
SetNode(elts) == [kind |-> "Set", elts |-> elts]
ListComp(elt, generators) == [kind |-> "ListComp", elt |-> elt, generators |-> generators]
SetComp(elt, generators) == [kind |-> "SetComp", elt |-> elt, generators |-> generators]
DictComp(key, value, generators) ==
    [kind |-> "DictComp", key |-> key, value |-> value, generators |-> generators]
GeneratorExp(elt, generators) ==
    [kind |-> "GeneratorExp", elt |-> elt, generators |-> generators]
Yield(value) == [kind |-> "Yield", value |-> value]
Compare(left, ops, comparators) ==
    [kind |-> "Compare", left |-> left, ops |-> [i \in DOMAIN ops |-> [kind |-> ops[i]]],
     comparators |-> comparators]
Call(func, args, keywords, starargs, kwargs) ==
    [kind |-> "Call", func |-> func, args |-> args, keywords |-> keywords,
     starargs |-> starargs, kwargs |-> kwargs]
Num(n) == [kind |-> "Num", n |-> n]
\* ty is the Python type of the value: "str" (native text) or "unicode"
Str(s, ty) == [kind |-> "Str", s |-> s, ty |-> ty]
Attribute(value, attr) == [kind |-> "Attribute", value |-> value, attr |-> attr]
Subscript(value, slice) == [kind |-> "Subscript", value |-> value, slice |-> slice]
Name(id) == [kind |-> "Name", id |-> id]
List(elts) == [kind |-> "List", elts |-> elts]
Tuple(elts) == [kind |-> "Tuple", elts |-> elts]

EllipsisNode == [kind |-> "Ellipsis"]
Slice(lower, upper, step) == [kind |-> "Slice", lower |-> lower, upper |-> upper, step |-> step]
ExtSlice(dims) == [kind |-> "ExtSlice", dims |-> dims]
Index(value) == [kind |-> "Index", value |-> value]

comprehension(target, iter, ifs) ==
    [kind |-> "comprehension", target |-> target, iter |-> iter, ifs |-> ifs]
ExceptHandler(type, name, body) ==
    [kind |-> "ExceptHandler", type |-> type, name |-> name, body |-> body]
arguments(args, vararg, kwarg, defaults) ==
    [kind |-> "arguments", args |-> args, vararg |-> vararg, kwarg |-> kwarg,
     defaults |-> defaults]
keyword(arg, value) == [kind |-> "keyword", arg |-> arg, value |-> value]
alias(name, asname) == [kind |-> "alias", name |-> name, asname |-> asname]

\* helper ast nodes to make decompilation easier (decompiler.py, end of file)
_CallArgs == [kind |-> "_CallArgs"]
KeyValuePair(key, value) == [kind |-> "KeyValuePair", key |-> key, value |-> value]
StarArg(arg) == [kind |-> "StarArg", arg |-> arg]
DoubleStarArg(arg) == [kind |-> "DoubleStarArg", arg |-> arg]
KeywordArg(arg, value) == [kind |-> "KeywordArg", arg |-> arg, value |-> value]

----------------------------------------------------------------------------
(* The static tables.                                                      *)

_OP_TO_STR(k) ==
    CASE k = "Add" -> "+"       [] k = "Sub" -> "-"      [] k = "Mult" -> "*"
      [] k = "Div" -> "/"       [] k = "Mod" -> "%"      [] k = "Pow" -> "**"
      [] k = "LShift" -> "<<"   [] k = "RShift" -> ">>"  [] k = "BitOr" -> "|"
      [] k = "BitXor" -> "^"    [] k = "BitAnd" -> "&"   [] k = "FloorDiv" -> "//"
      [] k = "Invert" -> "~"    [] k = "Not" -> "not "   [] k = "UAdd" -> "+"
      [] k = "USub" -> "-"      [] k = "Eq" -> "=="      [] k = "NotEq" -> "!="
      [] k = "Lt" -> "<"        [] k = "LtE" -> "<="     [] k = "Gt" -> ">"
      [] k = "GtE" -> ">="      [] k = "Is" -> "is"      [] k = "IsNot" -> "is not"
      [] k = "In" -> "in"       [] k = "NotIn" -> "not in"
      [] k = "And" -> "and"     [] k = "Or" -> "or"

OperatorKinds ==
    {"Add", "Sub", "Mult", "Div", "Mod", "Pow", "LShift", "RShift", "BitOr", "BitXor",
     "BitAnd", "FloorDiv", "Invert", "Not", "UAdd", "USub", "Eq", "NotEq", "Lt", "LtE",
     "Gt", "GtE", "Is", "IsNot", "In", "NotIn", "And", "Or"}

BinOpKinds ==
    {"Add", "Sub", "Mult", "Div", "Mod", "Pow", "LShift", "RShift", "BitOr", "BitXor",
     "BitAnd", "FloorDiv"}
UnaryOpKinds == {"Invert", "Not", "UAdd", "USub"}
CmpOpKinds == {"Eq", "NotEq", "Lt", "LtE", "Gt", "GtE", "Is", "IsNot", "In", "NotIn"}

\* _PRECEDENCE.get(k, -1)
_PRECEDENCE(k) ==
    CASE k = "_CallArgs" -> -1
      [] k = "Or" -> 0
      [] k = "And" -> 1
      [] k = "Not" -> 2
      [] k = "Compare" -> 3
      [] k = "BitOr" -> 4
      [] k = "BitXor" -> 5
      [] k = "BitAnd" -> 6
      [] k \in {"LShift", "RShift"} -> 7
      [] k \in {"Add", "Sub"} -> 8
      [] k \in {"Mult", "Div", "FloorDiv", "Mod"} -> 9
      [] k \in {"UAdd", "USub", "Invert"} -> 10
      [] k = "Pow" -> 11
      [] k \in {"Subscript", "Call", "Attribute"} -> 12
      [] OTHER -> -1

precedence_of_node(node) ==
    IF node.kind \in {"BinOp", "UnaryOp", "BoolOp"}
    THEN _PRECEDENCE(node.op.kind)
    ELSE _PRECEDENCE(node.kind)

\* self.node_stack[-2] while a handler runs, i.e. the entry under the top one
get_parent_node(stack) ==
    IF Len(stack) >= 2 THEN stack[Len(stack) - 1] ELSE [node |-> NoNode, path |-> <<>>]


----------------------------------------------------------------------------
(* Steps of the continuation.  A reference to a node is [node, path].      *)

Ref(node, path) == [node |-> node, path |-> path]
Sub(path, field) == Append(path, <<field, 0>>)
Elt(path, field, i) == Append(path, <<field, i>>)
\* references to the elements of the list node.<field>
Refs(nodes, path, field) == [i \in 1..Len(nodes) |-> Ref(nodes[i], Elt(path, field, i))]

\* self.visit(node)
V(node, path) == [t |-> "visit", node |-> node, path |-> path]
VRef(r) == V(r.node, r.path)
VisitAll(refs) == [i \in 1..Len(refs) |-> VRef(refs[i])]
\* self.write(code); `strs` are the pieces of the one string written
W(strs) == [t |-> "write", s |-> strs]
W1(str) == W(<<str>>)
\* self.write_indentation()
Ind == [t |-> "write_indentation"]
\* self.write_newline()
NL == [t |-> "write_newline"]
\* with self.add_indentation(): <body>
Indented(body) == [t |-> "add_indentation", body |-> body]
\* the finally clause of add_indentation
Dedent == [t |-> "dedent"]
\* self.node_stack.append(_CallArgs()); try: <body> finally: self.node_stack.pop()
WithCallArgs(body) == [t |-> "push_callargs", body |-> body]
\* the finally clause of visit: self.node_stack.pop()
Pop == [t |-> "pop"]
\* the finally clause of visit_Call: self.node_stack.pop() of the _CallArgs entry
PopCallArgs == [t |-> "pop", entry |-> "_CallArgs"]
\* self.write_expression_list(nodes, separator, allow_newlines, need_parens,
\*                            final_separator_if_multiline)
WEL(refs, separator, allow_newlines, need_parens, final_separator) ==
    [t |-> "write_expression_list", nodes |-> refs, separator |-> separator,
     allow_newlines |-> allow_newlines, need_parens |-> need_parens,
     final_separator_if_multiline |-> final_separator]
\* write_expression_list(nodes) with the default arguments
WELDefault(refs) == WEL(refs, ", ", TRUE, TRUE, TRUE)

\* with self.parenthesize_if(condition): <body>
parenthesize_if(condition, body) ==
    IF condition THEN <<W1("(")>> \o body \o <<W1(")")>> ELSE body

\* an optional part of a handler
When(condition, body) == IF condition THEN body ELSE <<>>

write_suite(refs) == <<Indented(VisitAll(refs))>>

write_else(orelse, path) ==
    When(orelse # <<>>,
         <<Ind, W1("else:"), NL>> \o write_suite(Refs(orelse, path, "orelse")))

\* separator.rstrip() for the separators the callers pass
rstrip(separator) ==
    CASE separator = ", " -> ","
      [] separator = " = " -> " ="
      [] separator = " or " -> " or"
      [] separator = " and " -> " and"
      [] separator = " " -> ""
      [] OTHER -> separator

\* repr(node.n) of a non-negative int
ReprNum(n) == ToString(n)
\* repr(node.s) of a str or unicode value made of plain letters
ReprStr(node) == (IF node.ty = "unicode" THEN "u'" ELSE "'") \o node.s \o "'"


----------------------------------------------------------------------------
(* Decompiler.visit and the handlers.                                      *)

\* the step to run next
Top == Head(ctl)
Running == pc = "run" /\ exc = "none" /\ ctl # <<>>

\* the handlers Decompiler defines (visit_<kind>)
HandledKinds ==
    {"Module", "Interactive", "Expression", "FunctionDef", "ClassDef", "For", "While",
     "If", "With", "TryExcept", "TryFinally", "Return", "Delete", "Assign", "AugAssign",
     "Print", "Raise", "Assert", "Import", "ImportFrom", "Exec", "Global", "Expr",
     "Pass", "Break", "Continue", "BoolOp", "BinOp", "UnaryOp", "Lambda", "IfExp",
     "Dict", "KeyValuePair", "Set", "ListComp", "SetComp", "DictComp", "GeneratorExp",
     "Yield", "Compare", "Call", "StarArg", "DoubleStarArg", "KeywordArg", "Repr",
     "Num", "Str", "Attribute", "Subscript", "Name", "List", "Tuple", "Ellipsis",
     "Slice", "ExtSlice", "Index", "Load", "Store", "Del", "AugLoad", "AugStore",
     "Param", "comprehension", "ExceptHandler", "arguments", "keyword", "alias"}
    \cup OperatorKinds

\* NodeVisitor.visit dispatches on the class name of the node
Dispatch(kind) == Running /\ Top.t = "visit" /\ Top.node.kind = kind

\* Decompiler.visit: push the node, run the handler, pop in the finally clause
Enter(body) ==
    /\ node_stack' = Append(node_stack, Ref(Top.node, Top.path))
    /\ ctl' = body \o <<Pop>> \o Tail(ctl)

\* what a handler's entry leaves alone
Quiet ==
    UNCHANGED <<tree, indentation, max_line_length, lines, current_line,
                current_indentation, has_unicode_literals, exc, pc, result, hist>>

\* the entry under the node being entered: its parent while the handler runs
Parent == IF node_stack = <<>> THEN Ref(NoNode, <<>>) ELSE Last(node_stack)

visit_Module ==
    /\ Dispatch("Module")
    /\ Enter(VisitAll(Refs(Top.node.body, Top.path, "body")))
    /\ Quiet

\* visit_Interactive = visit_Module
visit_Interactive ==
    /\ Dispatch("Interactive")
    /\ Enter(VisitAll(Refs(Top.node.body, Top.path, "body")))
    /\ Quiet

visit_Expression ==
    /\ Dispatch("Expression")
    /\ Enter(<<V(Top.node.body, Sub(Top.path, "body"))>>)
    /\ Quiet

\* a generic_visit that skips the node instead of raising
generic_visit_skip ==
    /\ Running /\ Top.t = "visit" /\ Top.node.kind \notin HandledKinds
    /\ ctl' = Tail(ctl)
    /\ UNCHANGED <<tree, indentation, max_line_length, lines, current_line,
                   current_indentation, node_stack, has_unicode_literals, exc, pc,
                   result, hist>>

\* generic_visit: a node class without a visit_ method
generic_visit ==
    /\ Running /\ Top.t = "visit" /\ Top.node.kind \notin HandledKinds
    /\ node_stack' = Append(node_stack, Ref(Top.node, Top.path))
    /\ ctl' = <<Pop>> \o Tail(ctl)
    /\ exc' = "NotImplementedError"
    /\ hist' = [hist EXCEPT !.raised_at = Top.path]
    /\ UNCHANGED <<tree, indentation, max_line_length, lines, current_line,
                   current_indentation, has_unicode_literals, pc, result>>

(* Multi-line statements *)

\* the decorator lines of a def or class
Decorators(node, path) ==
    Flatten([i \in 1..Len(node.decorator_list) |->
                <<Ind, W1("@"), V(node.decorator_list[i], Elt(path, "decorator_list", i)),
                  NL>>])

visit_FunctionDef ==
    /\ Dispatch("FunctionDef")
    /\ LET node == Top.node
           path == Top.path
       IN  Enter(<<NL>> \o Decorators(node, path)
                 \o <<Ind, W(<<"def ", node.name, "(">>), V(node.args, Sub(path, "args")),
                      W1("):"), NL>>
                 \o write_suite(Refs(node.body, path, "body")))
    /\ Quiet

visit_ClassDef ==
    /\ Dispatch("ClassDef")
    /\ LET node == Top.node
           path == Top.path
       IN  Enter(<<NL, NL>> \o Decorators(node, path)
                 \o <<Ind, W(<<"class ", node.name, "(">>),
                      WEL(Refs(node.bases, path, "bases"), ", ", TRUE, FALSE, TRUE),
                      W1("):"), NL>>
                 \o write_suite(Refs(node.body, path, "body")))
    /\ Quiet

visit_For ==
    /\ Dispatch("For")
    /\ LET node == Top.node
           path == Top.path
       IN  Enter(<<Ind, W1("for "), V(node.target, Sub(path, "target")), W1(" in "),
                   V(node.iter, Sub(path, "iter")), W1(":"), NL>>
                 \o write_suite(Refs(node.body, path, "body"))
                 \o write_else(node.orelse, path))
    /\ Quiet

visit_While ==
    /\ Dispatch("While")
    /\ LET node == Top.node
           path == Top.path
       IN  Enter(<<Ind, W1("while "), V(node.test, Sub(path, "test")), W1(":"), NL>>
                 \o write_suite(Refs(node.body, path, "body"))
                 \o write_else(node.orelse, path))
    /\ Quiet

\* a loop condition that looks at the first statement of the else branch only
IsElif_first_statement(node) ==
    node.orelse # <<>> /\ node.orelse[1].kind = "If"

\* the loop condition of visit_If: the else branch is exactly one If
IsElif(node) ==
    node.orelse # <<>> /\ Len(node.orelse) = 1 /\ node.orelse[1].kind = "If"

\* the while loop of visit_If and the write_else that follows it
RECURSIVE ElifChain(_, _)
ElifChain(node, path) ==
    IF IsElif(node)
    THEN LET inner == node.orelse[1]
             ipath == Elt(path, "orelse", 1)
         IN  <<Ind, W1("elif "), V(inner.test, Sub(ipath, "test")), W1(":"), NL>>
             \o write_suite(Refs(inner.body, ipath, "body"))
             \o ElifChain(inner, ipath)
    ELSE write_else(node.orelse, path)

visit_If ==
    /\ Dispatch("If")
    /\ LET node == Top.node
           path == Top.path
       IN  Enter(<<Ind, W1("if "), V(node.test, Sub(path, "test")), W1(":"), NL>>
                 \o write_suite(Refs(node.body, path, "body"))
                 \o ElifChain(node, path))
    /\ Quiet

\* the first loop of visit_With: the With nodes that share one header
RECURSIVE WithChain(_, _)
WithChain(node, path) ==
    <<Ref(node, path)>> \o
    (IF Len(node.body) = 1 /\ node.body[1].kind = "With"
     THEN WithChain(node.body[1], Elt(path, "body", 1))
     ELSE <<>>)

visit_With ==
    /\ Dispatch("With")
    /\ LET nodes == WithChain(Top.node, Top.path)
           inner == Last(nodes)
           item(i) ==
               When(i > 1, <<W1(", ")>>)
               \o <<V(nodes[i].node.context_expr, Sub(nodes[i].path, "context_expr"))>>
               \o When(~IsNone(nodes[i].node.optional_vars),
                       <<W1(" as "),
                         V(nodes[i].node.optional_vars, Sub(nodes[i].path, "optional_vars"))>>)
       IN  Enter(<<Ind, W1("with ")>>
                 \o Flatten([i \in 1..Len(nodes) |-> item(i)])
                 \o <<W1(":"), NL>>
                 \o write_suite(Refs(inner.node.body, inner.path, "body")))
    /\ Quiet

visit_TryExcept ==
    /\ Dispatch("TryExcept")
    /\ LET node == Top.node
           path == Top.path
       IN  Enter(<<Ind, W1("try:"), NL>>
                 \o write_suite(Refs(node.body, path, "body"))
                 \o VisitAll(Refs(node.handlers, path, "handlers"))
                 \o write_else(node.orelse, path))
    /\ Quiet

visit_TryFinally ==
    /\ Dispatch("TryFinally")
    /\ LET node == Top.node
           path == Top.path
       IN  Enter((IF Len(node.body) = 1 /\ node.body[1].kind = "TryExcept"
                  THEN <<V(node.body[1], Elt(path, "body", 1))>>
                  ELSE <<Ind, W1("try:"), NL>> \o write_suite(Refs(node.body, path, "body")))
                 \o <<Ind, W1("finally:"), NL>>
                 \o write_suite(Refs(node.finalbody, path, "finalbody")))
    /\ Quiet

visit_ExceptHandler ==
    /\ Dispatch("ExceptHandler")
    /\ LET node == Top.node
           path == Top.path
       IN  Enter(<<Ind, W1("except")>>
                 \o When(~IsNone(node.type),
                         <<W1(" "), V(node.type, Sub(path, "type"))>>
                         \o When(~IsNone(node.name),
                                 <<W1(" as "), V(node.name, Sub(path, "name"))>>))
                 \o <<W1(":"), NL>>
                 \o write_suite(Refs(node.body, path, "body")))
    /\ Quiet


(* One-line statements *)

visit_Return ==
    /\ Dispatch("Return")
    /\ Enter(<<Ind, W1("return")>>
             \o When(~IsNone(Top.node.value),
                     <<W1(" "), V(Top.node.value, Sub(Top.path, "value"))>>)
             \o <<NL>>)
    /\ Quiet

visit_Delete ==
    /\ Dispatch("Delete")
    /\ Enter(<<Ind, W1("del "), WELDefault(Refs(Top.node.targets, Top.path, "targets")), NL>>)
    /\ Quiet

visit_Assign ==
    /\ Dispatch("Assign")
    /\ Enter(<<Ind, WEL(Refs(Top.node.targets, Top.path, "targets"), " = ", TRUE, TRUE, TRUE),
               W1(" = "), V(Top.node.value, Sub(Top.path, "value")), NL>>)
    /\ Quiet

visit_AugAssign ==
    /\ Dispatch("AugAssign")
    /\ Enter(<<Ind, V(Top.node.target, Sub(Top.path, "target")), W1(" "),
               V(Top.node.op, Sub(Top.path, "op")), W1("= "),
               V(Top.node.value, Sub(Top.path, "value")), NL>>)
    /\ Quiet

visit_Print ==
    /\ Dispatch("Print")
    /\ LET node == Top.node
           path == Top.path
       IN  Enter(<<Ind, W1("print")>>
                 \o When(~IsNone(node.dest),
                         <<W1(" >>"), V(node.dest, Sub(path, "dest"))>>
                         \o When(node.values # <<>>, <<W1(",")>>))
                 \o When(node.values # <<>>, <<W1(" ")>>)
                 \o <<WEL(Refs(node.values, path, "values"), ", ", FALSE, TRUE, TRUE)>>
                 \o When(~node.nl, <<W1(",")>>)
                 \o <<NL>>)
    /\ Quiet

visit_Raise ==
    /\ Dispatch("Raise")
    /\ LET node == Top.node
           path == Top.path
           expressions ==
               When(~IsNone(node.type), <<Ref(node.type, Sub(path, "type"))>>)
               \o When(~IsNone(node.inst), <<Ref(node.inst, Sub(path, "inst"))>>)
               \o When(~IsNone(node.tback), <<Ref(node.tback, Sub(path, "tback"))>>)
       IN  Enter(<<Ind, W1("raise")>>
                 \o When(expressions # <<>>,
                         <<W1(" "), WEL(expressions, ", ", FALSE, TRUE, TRUE)>>)
                 \o <<NL>>)
    /\ Quiet

visit_Assert ==
    /\ Dispatch("Assert")
    /\ Enter(<<Ind, W1("assert "), V(Top.node.test, Sub(Top.path, "test"))>>
             \o When(~IsNone(Top.node.msg),
                     <<W1(", "), V(Top.node.msg, Sub(Top.path, "msg"))>>)
             \o <<NL>>)
    /\ Quiet

visit_Import ==
    /\ Dispatch("Import")
    /\ Enter(<<Ind, W1("import "), WELDefault(Refs(Top.node.names, Top.path, "names")), NL>>)
    /\ Quiet

\* the condition under which visit_ImportFrom sets has_unicode_literals
sets_unicode_literals(node) ==
    /\ node.module = "__future__"
    /\ \E i \in 1..Len(node.names) : node.names[i].name = "unicode_literals"

visit_ImportFrom ==
    /\ Dispatch("ImportFrom")
    /\ has_unicode_literals' = (IF sets_unicode_literals(Top.node) THEN TRUE
                                ELSE has_unicode_literals)
    /\ Enter(<<Ind, W(<<"from ">> \o [i \in 1..Top.node.level |-> "."])>>
             \o When(Top.node.module # "", <<W1(Top.node.module)>>)
             \o <<W1(" import "), WELDefault(Refs(Top.node.names, Top.path, "names")), NL>>)
    /\ hist' = [hist EXCEPT !.log = Append(@, [ev |-> "ImportFrom", node |-> Top.node])]
    /\ UNCHANGED <<tree, indentation, max_line_length, lines, current_line,
                   current_indentation, exc, pc, result>>

visit_Exec ==
    /\ Dispatch("Exec")
    /\ Enter(<<Ind, W1("exec "), V(Top.node.body, Sub(Top.path, "body"))>>
             \o When(~IsNone(Top.node.globals),
                     <<W1(" in "), V(Top.node.globals, Sub(Top.path, "globals"))>>)
             \o When(~IsNone(Top.node.locals),
                     <<W1(", "), V(Top.node.locals, Sub(Top.path, "locals"))>>)
             \o <<NL>>)
    /\ Quiet

visit_Global ==
    /\ Dispatch("Global")
    /\ Enter(<<Ind, W1("global "),
               WELDefault([i \in 1..Len(Top.node.names) |->
                              Ref(Name(Top.node.names[i]), Elt(Top.path, "names", i))]),
               NL>>)
    /\ Quiet

visit_Expr ==
    /\ Dispatch("Expr")
    /\ Enter(<<Ind, V(Top.node.value, Sub(Top.path, "value")), NL>>)
    /\ Quiet

visit_Pass ==
    /\ Dispatch("Pass")
    /\ Enter(<<Ind, W1("pass"), NL>>)
    /\ Quiet

visit_Break ==
    /\ Dispatch("Break")
    /\ Enter(<<Ind, W1("break"), NL>>)
    /\ Quiet

visit_Continue ==
    /\ Dispatch("Continue")
    /\ Enter(<<Ind, W1("continue"), NL>>)
    /\ Quiet


(* Expressions *)

\* store `new` at `path` of tree `t`: the node object at that place after a handler ran
RECURSIVE StoreAt(_, _, _)
StoreAt(t, path, new) ==
    IF path = <<>> THEN new
    ELSE LET f == Head(path)[1]
             i == Head(path)[2]
         IN  IF i = 0
             THEN [t EXCEPT ![f] = StoreAt(t[f], Tail(path), new)]
             ELSE [t EXCEPT ![f] = [t[f] EXCEPT ![i] = StoreAt(t[f][i], Tail(path), new)]]

visit_BoolOp ==
    /\ Dispatch("BoolOp")
    /\ LET node == Top.node
           my_prec == precedence_of_node(node)
           parent_prec == precedence_of_node(Parent.node)
           op == IF node.op.kind = "And" THEN "and" ELSE "or"
       IN  Enter(parenthesize_if(my_prec <= parent_prec,
                                 <<WEL(Refs(node.values, Top.path, "values"),
                                       " " \o op \o " ", TRUE, TRUE, FALSE)>>))
    /\ Quiet

\* a visit_BinOp that treats ** like the left-associative operators
BinOp_should_parenthesize_no_pow(node, path, parent) ==
    LET my_prec == precedence_of_node(node)
        parent_prec == precedence_of_node(parent.node)
    IN  IF my_prec < parent_prec THEN TRUE
        ELSE IF my_prec = parent_prec THEN path = Sub(parent.path, "right")
             ELSE FALSE

\* should_parenthesize of visit_BinOp
BinOp_should_parenthesize(node, path, parent) ==
    LET my_prec == precedence_of_node(node)
        parent_prec == precedence_of_node(parent.node)
    IN  IF my_prec < parent_prec THEN TRUE
        ELSE IF my_prec = parent_prec
             THEN IF node.op.kind = "Pow"
                  THEN path = Sub(parent.path, "left")
                  ELSE path = Sub(parent.path, "right")
             ELSE FALSE

visit_BinOp ==
    /\ Dispatch("BinOp")
    /\ LET node == Top.node
           path == Top.path
       IN  Enter(parenthesize_if(BinOp_should_parenthesize(node, path, Parent),
                                 <<V(node.left, Sub(path, "left")), W1(" "),
                                   V(node.op, Sub(path, "op")), W1(" "),
                                   V(node.right, Sub(path, "right"))>>))
    /\ Quiet

visit_UnaryOp ==
    /\ Dispatch("UnaryOp")
    /\ LET node == Top.node
           my_prec == precedence_of_node(node)
           parent_prec == precedence_of_node(Parent.node)
       IN  Enter(parenthesize_if(my_prec < parent_prec,
                                 <<V(node.op, Sub(Top.path, "op")),
                                   V(node.operand, Sub(Top.path, "operand"))>>))
    /\ Quiet

\* a visit_Lambda that forgets the callee of a call
Lambda_should_parenthesize_no_call(parent) ==
    parent.node.kind \in {"BinOp", "UnaryOp", "Compare", "IfExp", "Attribute", "Subscript"}

\* should_parenthesize of visit_Lambda
Lambda_should_parenthesize(parent) ==
    parent.node.kind \in
        {"BinOp", "UnaryOp", "Compare", "IfExp", "Attribute", "Subscript", "Call"}

visit_Lambda ==
    /\ Dispatch("Lambda")
    /\ LET node == Top.node
           path == Top.path
       IN  Enter(parenthesize_if(Lambda_should_parenthesize(Parent),
                     <<W1("lambda")>>
                     \o When(node.args.args # <<>> \/ node.args.vararg # ""
                             \/ node.args.kwarg # "", <<W1(" ")>>)
                     \o <<V(node.args, Sub(path, "args")), W1(": "),
                          V(node.body, Sub(path, "body"))>>))
    /\ Quiet

\* should_parenthesize of visit_IfExp
IfExp_should_parenthesize(path, parent) ==
    IF parent.node.kind \in {"BinOp", "UnaryOp", "Compare", "Attribute", "Subscript", "Call"}
    THEN TRUE
    ELSE IF parent.node.kind = "IfExp"
            /\ (path = Sub(parent.path, "test") \/ path = Sub(parent.path, "body"))
         THEN TRUE
         ELSE FALSE

visit_IfExp ==
    /\ Dispatch("IfExp")
    /\ LET node == Top.node
           path == Top.path
       IN  Enter(parenthesize_if(IfExp_should_parenthesize(path, Parent),
                                 <<V(node.body, Sub(path, "body")), W1(" if "),
                                   V(node.test, Sub(path, "test")), W1(" else "),
                                   V(node.orelse, Sub(path, "orelse"))>>))
    /\ Quiet

\* zip(node.keys, node.values) as KeyValuePair wrappers holding references
DictItems(node, path) ==
    LET n == IF Len(node.keys) < Len(node.values) THEN Len(node.keys) ELSE Len(node.values)
    IN  [i \in 1..n |->
            Ref(KeyValuePair(Ref(node.keys[i], Elt(path, "keys", i)),
                             Ref(node.values[i], Elt(path, "values", i))),
                Elt(path, "KeyValuePair", i))]

visit_Dict ==
    /\ Dispatch("Dict")
    /\ Enter(<<W1("{"), WEL(DictItems(Top.node, Top.path), ", ", TRUE, FALSE, TRUE),
               W1("}")>>)
    /\ Quiet

visit_KeyValuePair ==
    /\ Dispatch("KeyValuePair")
    /\ Enter(<<VRef(Top.node.key), W1(": "), VRef(Top.node.value)>>)
    /\ Quiet

visit_Set ==
    /\ Dispatch("Set")
    /\ Enter(<<W1("{"), WEL(Refs(Top.node.elts, Top.path, "elts"), ", ", TRUE, FALSE, TRUE),
               W1("}")>>)
    /\ Quiet

\* `[first] + node.generators`: the list handed to write_expression_list, and the
\* node as the expression leaves it (list + list builds a new list)
comp_elts(first, node, path) ==
    [elts |-> <<first>> \o Refs(node.generators, path, "generators"),
     node |-> node]

\* visit_comp(node, start, end)
visit_comp(kind, start, end) ==
    /\ Dispatch(kind)
    /\ LET built == comp_elts(Ref(Top.node.elt, Sub(Top.path, "elt")), Top.node, Top.path)
       IN  /\ Enter(<<W1(start), WEL(built.elts, " ", TRUE, FALSE, TRUE), W1(end)>>)
           /\ tree' = StoreAt(tree, Top.path, built.node)
    /\ UNCHANGED <<indentation, max_line_length, lines, current_line,
                   current_indentation, has_unicode_literals, exc, pc, result, hist>>

visit_ListComp == visit_comp("ListComp", "[", "]")

visit_SetComp == visit_comp("SetComp", "{", "}")

visit_GeneratorExp == visit_comp("GeneratorExp", "(", ")")

visit_DictComp ==
    /\ Dispatch("DictComp")
    /\ LET node == Top.node
           path == Top.path
           pair == Ref(KeyValuePair(Ref(node.key, Sub(path, "key")),
                                    Ref(node.value, Sub(path, "value"))),
                       Sub(path, "KeyValuePair"))
           built == comp_elts(pair, node, path)
       IN  /\ Enter(<<W1("{"), WEL(built.elts, " ", TRUE, FALSE, TRUE), W1("}")>>)
           /\ tree' = StoreAt(tree, path, built.node)
    /\ UNCHANGED <<indentation, max_line_length, lines, current_line,
                   current_indentation, has_unicode_literals, exc, pc, result, hist>>

visit_Yield ==
    /\ Dispatch("Yield")
    /\ Enter(parenthesize_if(Parent.node.kind \notin {"Expr", "Assign", "AugAssign"},
                 <<W1("yield")>>
                 \o When(~IsNone(Top.node.value),
                         <<W1(" "), V(Top.node.value, Sub(Top.path, "value"))>>)))
    /\ Quiet

visit_Compare ==
    /\ Dispatch("Compare")
    /\ LET node == Top.node
           path == Top.path
           my_prec == precedence_of_node(node)
           parent_prec == precedence_of_node(Parent.node)
           n == IF Len(node.ops) < Len(node.comparators)
                THEN Len(node.ops) ELSE Len(node.comparators)
       IN  Enter(parenthesize_if(my_prec <= parent_prec,
                     <<V(node.left, Sub(path, "left"))>>
                     \o Flatten([i \in 1..n |->
                                   <<W1(" "), V(node.ops[i], Elt(path, "ops", i)), W1(" "),
                                     V(node.comparators[i], Elt(path, "comparators", i))>>])))
    /\ Quiet


\* a visit_Call that appends to node.args itself (`args = node.args; args += ...`)
call_args_inplace(node, path) ==
    LET args == Refs(node.args, path, "args") \o Refs(node.keywords, path, "keywords")
                \o When(~IsNone(node.starargs),
                        <<Ref(StarArg(Ref(node.starargs, Sub(path, "starargs"))),
                              Sub(path, "StarArg"))>>)
                \o When(~IsNone(node.kwargs),
                        <<Ref(DoubleStarArg(Ref(node.kwargs, Sub(path, "kwargs"))),
                              Sub(path, "DoubleStarArg"))>>)
    IN  [args |-> args,
         node |-> [node EXCEPT !.args = [i \in 1..Len(args) |-> args[i].node]]]

\* visit_Call: `args = node.args + node.keywords`, then the appends to `args`;
\* list + list builds a new list, so the appends do not reach node.args
call_args(node, path) ==
    [args |-> Refs(node.args, path, "args") \o Refs(node.keywords, path, "keywords")
              \o When(~IsNone(node.starargs),
                      <<Ref(StarArg(Ref(node.starargs, Sub(path, "starargs"))),
                            Sub(path, "StarArg"))>>)
              \o When(~IsNone(node.kwargs),
                      <<Ref(DoubleStarArg(Ref(node.kwargs, Sub(path, "kwargs"))),
                            Sub(path, "DoubleStarArg"))>>),
     node |-> node]

visit_Call ==
    /\ Dispatch("Call")
    /\ LET node == Top.node
           path == Top.path
           built == call_args(node, path)
       IN  /\ Enter(<<V(node.func, Sub(path, "func")), W1("("),
                      WithCallArgs(When(built.args # <<>>,
                                        <<WEL(built.args, ", ", TRUE, FALSE, FALSE)>>)
                                   \o <<W1(")")>>)>>)
           /\ tree' = StoreAt(tree, path, built.node)
    /\ UNCHANGED <<indentation, max_line_length, lines, current_line,
                   current_indentation, has_unicode_literals, exc, pc, result, hist>>

\* self.node_stack.append(_CallArgs()) and the try block of visit_Call
push_callargs ==
    /\ Running /\ Top.t = "push_callargs"
    /\ node_stack' = Append(node_stack, Ref(_CallArgs, <<>>))
    /\ ctl' = Top.body \o <<PopCallArgs>> \o Tail(ctl)
    /\ Quiet

visit_StarArg ==
    /\ Dispatch("StarArg")
    /\ Enter(<<W1("*"), VRef(Top.node.arg)>>)
    /\ Quiet

visit_DoubleStarArg ==
    /\ Dispatch("DoubleStarArg")
    /\ Enter(<<W1("**"), VRef(Top.node.arg)>>)
    /\ Quiet

visit_KeywordArg ==
    /\ Dispatch("KeywordArg")
    /\ Enter(<<VRef(Top.node.arg), W1("="), VRef(Top.node.value)>>)
    /\ Quiet

\* visit_Repr (backquotes) is left out: no tree of the model holds a Repr node.

visit_Num ==
    /\ Dispatch("Num")
    /\ Enter(<<W1(ReprNum(Top.node.n))>>)
    /\ Quiet

\* the condition of visit_Str: has_unicode_literals and isinstance(node.s, str)
Str_writes_b(node, flag) == flag /\ node.ty = "str"

visit_Str ==
    /\ Dispatch("Str")
    /\ LET b == Str_writes_b(Top.node, has_unicode_literals)
       IN  /\ Enter(When(b, <<W1("b")>>) \o <<W1(ReprStr(Top.node))>>)
           /\ hist' = [hist EXCEPT !.log = Append(@, [ev |-> "Str", node |-> Top.node,
                                                      b |-> b])]
    /\ UNCHANGED <<tree, indentation, max_line_length, lines, current_line,
                   current_indentation, has_unicode_literals, exc, pc, result>>

visit_Attribute ==
    /\ Dispatch("Attribute")
    /\ Enter(<<V(Top.node.value, Sub(Top.path, "value")), W(<<".", Top.node.attr>>)>>)
    /\ Quiet

visit_Subscript ==
    /\ Dispatch("Subscript")
    /\ Enter(<<V(Top.node.value, Sub(Top.path, "value")), W1("["),
               V(Top.node.slice, Sub(Top.path, "slice")), W1("]")>>)
    /\ Quiet

visit_Name ==
    /\ Dispatch("Name")
    /\ Enter(<<W1(Top.node.id)>>)
    /\ Quiet

visit_List ==
    /\ Dispatch("List")
    /\ Enter(<<W1("["), WEL(Refs(Top.node.elts, Top.path, "elts"), ", ", TRUE, FALSE, TRUE),
               W1("]")>>)
    /\ Quiet

\* a visit_Tuple that forgets that a return value may be a bare tuple
Tuple_should_parenthesize_no_return(parent) ==
    parent.node.kind \notin {"Expr", "Assign", "AugAssign", "Yield"}

\* should_parenthesize of visit_Tuple
Tuple_should_parenthesize(parent) ==
    parent.node.kind \notin {"Expr", "Assign", "AugAssign", "Return", "Yield"}

visit_Tuple ==
    /\ Dispatch("Tuple")
    /\ LET node == Top.node
           path == Top.path
           should_parenthesize == Tuple_should_parenthesize(Parent)
       IN  Enter(IF node.elts = <<>>
                 THEN <<W1("()")>>
                 ELSE parenthesize_if(should_parenthesize,
                          IF Len(node.elts) = 1
                          THEN <<V(node.elts[1], Elt(path, "elts", 1)), W1(",")>>
                          ELSE <<WEL(Refs(node.elts, path, "elts"), ", ", TRUE,
                                     ~should_parenthesize, TRUE)>>))
    /\ Quiet

(* slice *)

visit_Ellipsis ==
    /\ Dispatch("Ellipsis")
    /\ Enter(<<W1("Ellipsis")>>)
    /\ Quiet

visit_Slice ==
    /\ Dispatch("Slice")
    /\ LET node == Top.node
           path == Top.path
       IN  Enter(When(~IsNone(node.lower), <<V(node.lower, Sub(path, "lower"))>>)
                 \o <<W1(":")>>
                 \o When(~IsNone(node.upper), <<V(node.upper, Sub(path, "upper"))>>)
                 \o When(~IsNone(node.step), <<W1(":"), V(node.step, Sub(path, "step"))>>))
    /\ Quiet

visit_ExtSlice ==
    /\ Dispatch("ExtSlice")
    /\ Enter(<<WEL(Refs(Top.node.dims, Top.path, "dims"), ", ", TRUE, FALSE, TRUE)>>)
    /\ Quiet

visit_Index ==
    /\ Dispatch("Index")
    /\ Enter(<<V(Top.node.value, Sub(Top.path, "value"))>>)
    /\ Quiet

(* operators: def visit_<op>(self, node): self.write(<string>) *)

visit_operator ==
    /\ Running /\ Top.t = "visit" /\ Top.node.kind \in OperatorKinds
    /\ Enter(<<W1(_OP_TO_STR(Top.node.kind))>>)
    /\ Quiet

(* Other types *)

visit_comprehension ==
    /\ Dispatch("comprehension")
    /\ LET node == Top.node
           path == Top.path
       IN  Enter(<<W1("for "), V(node.target, Sub(path, "target")), W1(" in "),
                   V(node.iter, Sub(path, "iter"))>>
                 \o Flatten([i \in 1..Len(node.ifs) |->
                               <<W1(" if "), V(node.ifs[i], Elt(path, "ifs", i))>>]))
    /\ Quiet

\* visit_arguments: the local list `args` (a slice or list() copy of node.args with
\* the wrappers appended), and the node as building it leaves it
arguments_args(node, path) ==
    LET num_defaults == Len(node.defaults)
        n == Len(node.args)
        k == IF num_defaults < n THEN n - num_defaults ELSE 0
        plain == [i \in 1..(IF num_defaults # 0 THEN k ELSE n) |->
                     Ref(node.args[i], Elt(path, "args", i))]
        m == IF n - k < num_defaults THEN n - k ELSE num_defaults
        default_args ==
            [j \in 1..(IF num_defaults # 0 THEN m ELSE 0) |->
                Ref(KeywordArg(Ref(node.args[k + j], Elt(path, "args", k + j)),
                               Ref(node.defaults[j], Elt(path, "defaults", j))),
                    Elt(path, "KeywordArg", j))]
    IN  [args |-> plain \o default_args
                  \o When(node.vararg # "",
                          <<Ref(StarArg(Ref(Name(node.vararg), Sub(path, "vararg"))),
                                Sub(path, "StarArg"))>>)
                  \o When(node.kwarg # "",
                          <<Ref(DoubleStarArg(Ref(Name(node.kwarg), Sub(path, "kwarg"))),
                                Sub(path, "DoubleStarArg"))>>),
         node |-> node]

visit_arguments ==
    /\ Dispatch("arguments")
    /\ LET built == arguments_args(Top.node, Top.path)
           \* lambdas can't have a multiline arglist
           allow_newlines == Parent.node.kind # "Lambda"
       IN  /\ Enter(When(built.args # <<>>,
                         <<WEL(built.args, ", ", allow_newlines, FALSE, FALSE)>>))
           /\ tree' = StoreAt(tree, Top.path, built.node)
    /\ UNCHANGED <<indentation, max_line_length, lines, current_line,
                   current_indentation, has_unicode_literals, exc, pc, result, hist>>

visit_keyword ==
    /\ Dispatch("keyword")
    /\ Enter(<<W(<<Top.node.arg, "=">>), V(Top.node.value, Sub(Top.path, "value"))>>)
    /\ Quiet

visit_alias ==
    /\ Dispatch("alias")
    /\ Enter(<<W1(Top.node.name)>>
             \o When(Top.node.asname # "", <<W(<<" as ", Top.node.asname>>)>>))
    /\ Quiet


----------------------------------------------------------------------------
(* The writer.                                                             *)

\* self.write(code): current_line.append(code)
write ==
    /\ Running /\ Top.t = "write"
    /\ current_line' = current_line \o Top.s
    /\ ctl' = Tail(ctl)
    /\ UNCHANGED <<tree, indentation, max_line_length, lines, current_indentation,
                   node_stack, has_unicode_literals, exc, pc, result, hist>>

\* self.write(' ' * self.current_indentation)
write_indentation ==
    /\ Running /\ Top.t = "write_indentation"
    /\ current_line' = Append(current_line, Spaces(current_indentation))
    /\ ctl' = Tail(ctl)
    /\ UNCHANGED <<tree, indentation, max_line_length, lines, current_indentation,
                   node_stack, has_unicode_literals, exc, pc, result, hist>>

\* a write_newline that replaces the completed lines (`self.lines = [line]`)
write_newline_replaces ==
    /\ Running /\ Top.t = "write_newline"
    /\ lines' = <<current_line \o <<"\n">>>>
    /\ current_line' = <<>>
    /\ ctl' = Tail(ctl)
    /\ UNCHANGED <<tree, indentation, max_line_length, current_indentation,
                   node_stack, has_unicode_literals, exc, pc, result, hist>>

\* line = ''.join(self.current_line) + '\n'; the joined line is kept as its pieces
write_newline ==
    /\ Running /\ Top.t = "write_newline"
    /\ lines' = Append(lines, current_line \o <<"\n">>)
    /\ current_line' = <<>>
    /\ ctl' = Tail(ctl)
    /\ UNCHANGED <<tree, indentation, max_line_length, current_indentation,
                   node_stack, has_unicode_literals, exc, pc, result, hist>>

\* sum(map(len, self.current_line))
current_line_length == SumLen(current_line)

\* an add_indentation without its try/finally: the depth is never given back
add_indentation_no_finally ==
    /\ Running /\ Top.t = "add_indentation"
    /\ current_indentation' = current_indentation + indentation
    /\ ctl' = Top.body \o Tail(ctl)
    /\ UNCHANGED <<tree, indentation, max_line_length, lines, current_line,
                   node_stack, has_unicode_literals, exc, pc, result, hist>>

\* add_indentation, up to the yield
add_indentation ==
    /\ Running /\ Top.t = "add_indentation"
    /\ current_indentation' = current_indentation + indentation
    /\ ctl' = Top.body \o <<Dedent>> \o Tail(ctl)
    /\ UNCHANGED <<tree, indentation, max_line_length, lines, current_line,
                   node_stack, has_unicode_literals, exc, pc, result, hist>>

\* add_indentation, the finally clause, reached without an exception
dedent ==
    /\ Running /\ Top.t = "dedent"
    /\ current_indentation' = current_indentation - indentation
    /\ ctl' = Tail(ctl)
    /\ UNCHANGED <<tree, indentation, max_line_length, lines, current_line,
                   node_stack, has_unicode_literals, exc, pc, result, hist>>

\* the finally clause of visit (and of visit_Call), reached without an exception
pop_node ==
    /\ Running /\ Top.t = "pop"
    /\ node_stack' = Front(node_stack)
    /\ ctl' = Tail(ctl)
    /\ Quiet

----------------------------------------------------------------------------
(* write_expression_list.  The frame of a call is the step "wel_after_node":*)
(* the arguments, the loop index i, the checkpoint (last_line, saved_line)  *)
(* and, for observation only, the indentation, the number of fallbacks and  *)
(* the completed lines at the time of the call.                             *)

\* entry: the checkpoint and the first iteration of the for loop up to self.visit(node)
write_expression_list ==
    /\ Running /\ Top.t = "write_expression_list"
    /\ LET frame == [t |-> "wel_after_node", nodes |-> Top.nodes,
                     separator |-> Top.separator, allow_newlines |-> Top.allow_newlines,
                     need_parens |-> Top.need_parens,
                     final_separator_if_multiline |-> Top.final_separator_if_multiline,
                     i |-> 1, last_line |-> Len(lines), saved_line |-> current_line,
                     indentation0 |-> current_indentation, breaks0 |-> hist.breaks,
                     lines0 |-> lines]
       IN  ctl' = (IF Top.nodes = <<>>
                   THEN <<>>   \* the loop body never runs: `else: return`
                   ELSE <<VRef(Top.nodes[1]), frame>>) \o Tail(ctl)
    /\ UNCHANGED <<tree, indentation, max_line_length, lines, current_line,
                   current_indentation, node_stack, has_unicode_literals, exc, pc,
                   result, hist>>

\* an overflow test that forgets allow_newlines
wel_overflows_always_allowed(frame, length, limit) == length > limit

\* if allow_newlines and self.current_line_length() > self.max_line_length: break
wel_overflows(frame, length, limit) == frame.allow_newlines /\ length > limit

\* the multi-line rendering, after the state was reset
wel_multiline(frame) ==
    LET separator == rstrip(frame.separator)
        num_nodes == Len(frame.nodes)
        item(i) ==
            <<Ind, VRef(frame.nodes[i])>>
            \o When(frame.final_separator_if_multiline \/ i < num_nodes, <<W1(separator)>>)
            \o <<NL>>
    IN  When(frame.need_parens, <<W1("(")>>)
        \o <<NL, Indented(Flatten([i \in 1..num_nodes |-> item(i)]))>>
        \o <<[frame EXCEPT !.t = "wel_close"]>>

\* a reset that restores the open line but forgets `del self.lines[last_line:]`
wel_reset_keeps_lines(frame, ls) == [lines |-> ls, current_line |-> frame.saved_line]

\* the lines and the open line after `del self.lines[last_line:]` and
\* `self.current_line = current_line`
wel_reset(frame, ls) ==
    [lines |-> SubSeq(ls, 1, frame.last_line), current_line |-> frame.saved_line]

\* what the loop records when it keeps going inline (observation only)
Kept(frame) ==
    [hist EXCEPT !.last_kept = [length |-> current_line_length,
                                allow_newlines |-> frame.allow_newlines]]

\* after self.visit(node): no break, and another node follows
wel_next ==
    /\ Running /\ Top.t = "wel_after_node"
    /\ ~wel_overflows(Top, current_line_length, max_line_length)
    /\ Top.i < Len(Top.nodes)
    /\ ctl' = <<W1(Top.separator), VRef(Top.nodes[Top.i + 1]), [Top EXCEPT !.i = @ + 1]>>
              \o Tail(ctl)
    /\ hist' = Kept(Top)
    /\ UNCHANGED <<tree, indentation, max_line_length, lines, current_line,
                   current_indentation, node_stack, has_unicode_literals, exc, pc, result>>

\* after the last node: `else: return  # stayed within the limit`
wel_return ==
    /\ Running /\ Top.t = "wel_after_node"
    /\ ~wel_overflows(Top, current_line_length, max_line_length)
    /\ Top.i = Len(Top.nodes)
    /\ ctl' = Tail(ctl)
    /\ hist' = Kept(Top)
    /\ UNCHANGED <<tree, indentation, max_line_length, lines, current_line,
                   current_indentation, node_stack, has_unicode_literals, exc, pc, result>>

\* break, then `# reset state`; the multi-line rendering is scheduled
wel_break ==
    /\ Running /\ Top.t = "wel_after_node"
    /\ wel_overflows(Top, current_line_length, max_line_length)
    /\ lines' = wel_reset(Top, lines).lines
    /\ current_line' = wel_reset(Top, lines).current_line
    /\ ctl' = wel_multiline(Top) \o Tail(ctl)
    /\ hist' = [hist EXCEPT !.breaks = @ + 1]
    /\ UNCHANGED <<tree, indentation, max_line_length, current_indentation, node_stack,
                   has_unicode_literals, exc, pc, result>>

\* the end of the multi-line rendering: self.write_indentation() and the closing ')'
wel_close ==
    /\ Running /\ Top.t = "wel_close"
    /\ current_line' = Append(current_line, Spaces(current_indentation))
                       \o When(Top.need_parens, <<")">>)
    /\ ctl' = Tail(ctl)
    /\ UNCHANGED <<tree, indentation, max_line_length, lines, current_indentation,
                   node_stack, has_unicode_literals, exc, pc, result, hist>>

----------------------------------------------------------------------------
(* Exceptions and decompile().                                             *)

\* an unwinding that skips the finally clause of visit
propagate_keeps_stack ==
    /\ pc = "run" /\ exc # "none" /\ ctl # <<>>
    /\ node_stack' = node_stack
    /\ current_indentation' = IF Top.t = "dedent" THEN current_indentation - indentation
                              ELSE current_indentation
    /\ ctl' = Tail(ctl)
    /\ UNCHANGED <<tree, indentation, max_line_length, lines, current_line,
                   has_unicode_literals, exc, pc, result, hist>>

\* the exception leaves a frame: only finally clauses run
propagate ==
    /\ pc = "run" /\ exc # "none" /\ ctl # <<>>
    /\ node_stack' = IF Top.t = "pop" THEN Front(node_stack) ELSE node_stack
    /\ current_indentation' = IF Top.t = "dedent" THEN current_indentation - indentation
                              ELSE current_indentation
    /\ ctl' = Tail(ctl)
    /\ UNCHANGED <<tree, indentation, max_line_length, lines, current_line,
                   has_unicode_literals, exc, pc, result, hist>>

\* the exception leaves decompile(): nothing is returned
decompile_raise ==
    /\ pc = "run" /\ exc # "none" /\ ctl = <<>>
    /\ pc' = "raised"
    /\ UNCHANGED <<tree, indentation, max_line_length, lines, current_line,
                   current_indentation, node_stack, has_unicode_literals, ctl, exc,
                   result, hist>>

\* return ''.join(decompiler.lines)
decompile_return ==
    /\ pc = "run" /\ exc = "none" /\ ctl = <<>>
    /\ result' = Flatten(lines)
    /\ pc' = "done"
    /\ UNCHANGED <<tree, indentation, max_line_length, lines, current_line,
                   current_indentation, node_stack, has_unicode_literals, ctl, exc, hist>>


----------------------------------------------------------------------------
(* The inputs: the trees and the configurations decompile() is run on.     *)

a == Name("a")
b == Name("b")
c == Name("c")
x == Name("x")
NoArgs == arguments(<<>>, "", "", <<>>)
Lambda0 == Lambda(NoArgs, x)
IfExp0 == IfExp(a, b, c)
Call0(func, args) == Call(func, args, <<>>, NoNode, NoNode)
Stmt(e) == Module(<<Expr(e)>>)

\* element k of a generated list
Item(k) == Name(CASE k = 1 -> "aaa" [] k = 2 -> "bbb" [] k = 3 -> "ccc" [] OTHER -> "ddd")
Items(n) == [k \in 1..n |-> Item(k)]

\* binary operators nested to the left and to the right, every pair of operators
BinOpPrograms ==
    {Stmt(BinOp(BinOp(a, inner, b), outer, c)) : inner \in BinOpKinds, outer \in BinOpKinds}
    \cup
    {Stmt(BinOp(a, outer, BinOp(b, inner, c))) : inner \in BinOpKinds, outer \in BinOpKinds}

\* where a lambda or a conditional expression `e` may stand
Contexts(e) ==
    {BinOp(e, "Add", a), BinOp(a, "Mult", e), UnaryOp("USub", e), UnaryOp("Not", e),
     Compare(e, <<"Lt">>, <<a>>), Compare(a, <<"Eq", "In">>, <<b, e>>),
     Call0(e, <<a>>), Call0(Name("f"), <<e>>), Call0(Name("f"), <<a, e>>),
     Call(Name("f"), <<>>, <<keyword("k", e)>>, NoNode, NoNode),
     Call(Name("f"), <<>>, <<>>, e, NoNode), Call(Name("f"), <<>>, <<>>, NoNode, e),
     Attribute(e, "attr"), Subscript(e, Index(a)), Subscript(a, Index(e)),
     IfExp(e, a, b), IfExp(a, e, b), IfExp(a, b, e),
     BoolOp("Or", <<e, a>>), BoolOp("And", <<a, e>>),
     List(<<e>>), Tuple(<<e, a>>), Lambda(NoArgs, e)}

ContextPrograms ==
    {Stmt(e) : e \in Contexts(Lambda0) \cup Contexts(IfExp0)}
    \cup {Module(<<Assign(<<x>>, e)>>) : e \in {Lambda0, IfExp0}}

\* the statements a tuple `t` may stand in bare, and places where it may not
TupleContexts(t) ==
    {Expr(t), Assign(<<x>>, t), Assign(<<t>>, x), AugAssign(x, "Add", t), Return(t),
     Expr(Yield(t)), Assign(<<x>>, Yield(t)),
     Expr(Call0(Name("f"), <<t>>)), Expr(List(<<t>>)), Expr(BinOp(t, "Add", a)),
     For(t, a, <<Pass>>, <<>>), Expr(Compare(a, <<"In">>, <<t>>)), Expr(Tuple(<<t, a>>)),
     AssertStmt(t, NoNode), Expr(Subscript(a, Index(t)))}

TuplePrograms ==
    {Module(<<st>>) : st \in UNION {TupleContexts(Tuple(Items(n))) : n \in 0..MaxElts}}

\* delimited lists of every length, through every caller of write_expression_list
ListStatements(n) ==
    {Expr(List(Items(n))), Assign(<<x>>, List(Items(n))), Expr(SetNode(Items(n))),
     Expr(Call0(Name("f"), Items(n))), Expr(BoolOp("Or", Items(n))),
     Expr(BoolOp("And", <<List(Items(n)), a>>)),
     Expr(List(<<List(Items(n)), b>>)), Expr(List(<<a, List(Items(n))>>)),
     Expr(Call0(Name("f"), <<Call0(Name("g"), Items(n)), List(Items(n))>>)),
     Expr(Dict(Items(n), Items(n))), Delete(Items(n)), Assign(Items(n), x),
     PrintStmt(NoNode, Items(n), TRUE), PrintStmt(a, Items(n), FALSE),
     Global([k \in 1..n |-> Item(k).id]),
     Import([k \in 1..n |-> alias(Item(k).id, "")]),
     ImportFrom("mod", [k \in 1..n |-> alias(Item(k).id, IF k = 1 THEN "z" ELSE "")], 0),
     ClassDef("C", Items(n), <<Pass>>, <<>>),
     FunctionDef("f", arguments(Items(n), "", "", <<>>), <<Pass>>, <<>>),
     Expr(Lambda(arguments(Items(n), "", "", <<>>), x)),
     Expr(Subscript(a, ExtSlice([k \in 1..n |-> Index(Item(k))]))),
     Expr(ListComp(a, [k \in 1..n |-> comprehension(Item(k), b, <<>>)])),
     If(a, <<Expr(List(Items(n)))>>, <<>>)}

ListPrograms == {Module(<<st>>) : st \in UNION {ListStatements(n) : n \in 0..MaxElts}}

\* a list that falls back inside the inline attempt of an enclosing list, which
\* then overflows itself on its next element
LongName == Name("a_very_long_name")
NestedPrograms ==
    {Module(<<st>>) :
        st \in UNION {{Expr(List(<<List(Items(n)), LongName>>)),
                       Expr(Call0(Name("f"), <<List(Items(n)), LongName>>)),
                       Assign(<<x>>, Tuple(<<Call0(Name("g"), Items(n)), LongName>>)),
                       If(a, <<Expr(List(<<List(<<List(Items(n)), LongName>>), LongName>>))>>,
                          <<>>)} : n \in 1..MaxElts}}

\* an if statement with n - 1 nested ifs as sole else branches
RECURSIVE Chain(_, _)
Chain(n, last) ==
    IF n <= 1 THEN If(a, <<Pass>>, last)
    ELSE If(Item(n), <<Pass>>, <<Chain(n - 1, last)>>)

IfPrograms ==
    {Module(<<Chain(n, last)>>) :
        n \in 1..MaxChain, last \in {<<>>, <<Pass>>, <<Break, If(b, <<Pass>>, <<>>)>>,
                                     <<If(b, <<Pass>>, <<>>), Break>>}}
    \cup {Module(<<If(a, <<Chain(n, <<Pass>>)>>, <<Chain(n, <<>>)>>)>>) : n \in 1..MaxChain}
    \cup {Module(<<While(a, <<Chain(n, <<Pass>>)>>, <<Chain(n, <<Continue>>)>>)>>) :
            n \in 2..MaxChain}

\* string literals before and after import statements
StrTypes == {"str", "unicode"}
ImportVariants ==
    {ImportFrom(m, ns, lv) :
        m \in {"__future__", "os"},
        ns \in {<<alias("unicode_literals", "")>>, <<alias("division", "")>>,
                <<alias("division", ""), alias("unicode_literals", "u")>>},
        lv \in {0, 1}}
    \cup {Import(<<alias("__future__", "")>>), ImportFrom("", <<alias("unicode_literals", "")>>, 1)}

UnicodePrograms ==
    {Module(<<Expr(Str("s", t1)), imp, Assign(<<x>>, List(<<Str("t", t2), Str("u", t1)>>))>>) :
        t1 \in StrTypes, t2 \in StrTypes, imp \in ImportVariants}
    \cup {Module(<<ImportFrom("__future__", <<alias("unicode_literals", "")>>, 0),
                   Expr(Str("s", "str")), ImportFrom("os", <<alias("path", "")>>, 0),
                   Expr(Str("t", "str"))>>)}

\* trees holding a node class without a handler
Bad == Starred(a)
UnsupportedPrograms ==
    {Suite(<<Pass>>), Module(<<Pass, Expr(Bad), Expr(a)>>),
     Module(<<Expr(List(<<a, Bad, b>>)), Expr(b)>>),
     Module(<<Expr(Call0(Name("f"), <<List(<<a, Bad>>)>>))>>),
     Module(<<If(a, <<While(b, <<Pass, Expr(Bad), Pass>>, <<>>)>>, <<Pass>>), Pass>>),
     Module(<<If(a, <<Expr(List(Items(MaxElts) \o <<Bad>>))>>, <<>>)>>),
     Module(<<FunctionDef("f", NoArgs, <<Return(BinOp(a, "Add", Bad))>>, <<>>)>>),
     Expression(Bad), Interactive(<<Expr(a), Bad>>)}

\* the remaining statement and expression classes
OtherPrograms ==
    {Module(<<FunctionDef("f", arguments(<<a, b, c>>, "args", "kw", <<Num(1), x>>),
                          <<Return(NoNode), Return(a)>>, <<Name("dec"), Call0(x, <<>>)>>)>>),
     Module(<<FunctionDef("f", arguments(<<a>>, "", "kw", <<Num(1), Num(2)>>), <<Pass>>, <<>>)>>),
     Module(<<ClassDef("C", <<Name("object")>>,
                       <<FunctionDef("m", arguments(<<Name("self")>>, "", "", <<>>),
                                     <<Expr(Yield(NoNode))>>, <<>>)>>, <<Name("dec")>>)>>),
     Module(<<For(x, a, <<Break>>, <<Continue>>), For(Tuple(<<a, b>>), c, <<Pass>>, <<>>)>>),
     Module(<<While(a, <<Pass>>, <<>>)>>),
     Module(<<With(a, b, <<With(c, NoNode, <<Pass>>)>>), With(a, NoNode, <<Pass, Pass>>)>>),
     Module(<<TryFinally(<<TryExcept(<<Pass>>, <<ExceptHandler(a, b, <<Pass>>),
                                                 ExceptHandler(c, NoNode, <<Pass>>),
                                                 ExceptHandler(NoNode, NoNode, <<Pass>>)>>,
                                     <<Pass>>)>>, <<Pass>>)>>),
     Module(<<TryFinally(<<Pass>>, <<Pass>>),
              TryExcept(<<Pass>>, <<ExceptHandler(NoNode, NoNode, <<Pass>>)>>, <<>>)>>),
     Module(<<Raise(a, b, c), Raise(a, NoNode, NoNode), Raise(NoNode, NoNode, NoNode)>>),
     Module(<<AssertStmt(a, b), AssertStmt(a, NoNode)>>),
     Module(<<Exec(a, b, c), Exec(a, b, NoNode), Exec(a, NoNode, NoNode)>>),
     Module(<<AugAssign(x, "Add", Num(1)), AugAssign(x, "Pow", a)>>),
     Module(<<PrintStmt(a, <<>>, TRUE), PrintStmt(NoNode, <<>>, FALSE)>>),
     Stmt(Call(Name("f"), <<a>>, <<keyword("k", b)>>, c, x)),
     Stmt(Call(Attribute(a, "m"), <<>>, <<>>, NoNode, NoNode)),
     Stmt(Subscript(a, Slice(a, b, c))), Stmt(Subscript(a, Slice(NoNode, NoNode, NoNode))),
     Stmt(Subscript(a, ExtSlice(<<EllipsisNode, Slice(a, NoNode, NoNode), Index(b)>>))),
     Stmt(Subscript(a, EllipsisNode)),
     Stmt(SetComp(a, <<comprehension(a, b, <<c, x>>)>>)),
     Stmt(GeneratorExp(a, <<comprehension(a, b, <<>>), comprehension(b, c, <<x>>)>>)),
     Stmt(DictComp(a, b, <<comprehension(Tuple(<<a, b>>), c, <<>>)>>)),
     Stmt(ListComp(IfExp0, <<comprehension(a, IfExp0, <<Lambda0>>)>>)),
     Stmt(Dict(<<a, Num(1)>>, <<Str("v", "str"), Dict(<<>>, <<>>)>>)),
     Stmt(Lambda(arguments(<<a, b>>, "args", "kw", <<Num(1)>>), Tuple(<<a, b>>))),
     Stmt(Compare(Compare(a, <<"Lt">>, <<b>>), <<"Lt", "IsNot">>, <<c, BoolOp("Or", <<a, b>>)>>)),
     Stmt(BoolOp("Or", <<BoolOp("And", <<a, b>>), BoolOp("Or", <<a, c>>), UnaryOp("Not", a)>>)),
     Stmt(UnaryOp("USub", UnaryOp("Invert", BinOp(a, "Pow", UnaryOp("UAdd", b))))),
     Stmt(BinOp(BinOp(a, "Add", b), "Add", BinOp(a, "Add", b))),
     Stmt(Call0(BinOp(a, "Add", b), <<BinOp(a, "Add", b)>>)),
     Stmt(Attribute(Subscript(BinOp(a, "Pow", b), Index(BinOp(a, "Add", b))), "attr")),
     Expression(BinOp(a, "Add", b)), Expression(a),
     Interactive(<<Expr(a), Pass>>), Interactive(<<>>), Module(<<>>)}

Programs ==
    BinOpPrograms \cup ContextPrograms \cup TuplePrograms \cup ListPrograms
    \cup NestedPrograms
    \cup IfPrograms \cup UnicodePrograms \cup UnsupportedPrograms \cup OtherPrograms

Widths == {DefaultLineLength} \cup (NarrowBase .. NarrowBase + NarrowSpan)
Indents == {DefaultIndentation}

\* decompile(): Decompiler.__init__, then decompiler.visit(ast) is about to run
Init ==
    /\ tree \in Programs
    /\ indentation \in Indents
    /\ max_line_length \in Widths
    /\ lines = <<>>
    /\ current_line = <<>>
    /\ current_indentation = 0
    /\ node_stack = <<>>
    /\ has_unicode_literals = FALSE
    /\ ctl = <<V(tree, <<>>)>>
    /\ exc = "none"
    /\ pc = "run"
    /\ result = NoResult
    /\ hist = [input |-> tree, log |-> <<>>, raised_at |-> <<>>, breaks |-> 0,
               last_kept |-> [length |-> 0, allow_newlines |-> TRUE]]

Next ==
    \/ visit_Module \/ visit_Interactive \/ visit_Expression \/ generic_visit
    \/ visit_FunctionDef \/ visit_ClassDef \/ visit_For \/ visit_While \/ visit_If
    \/ visit_With \/ visit_TryExcept \/ visit_TryFinally \/ visit_ExceptHandler
    \/ visit_Return \/ visit_Delete \/ visit_Assign \/ visit_AugAssign \/ visit_Print
    \/ visit_Raise \/ visit_Assert \/ visit_Import \/ visit_ImportFrom \/ visit_Exec
    \/ visit_Global \/ visit_Expr \/ visit_Pass \/ visit_Break \/ visit_Continue
    \/ visit_BoolOp \/ visit_BinOp \/ visit_UnaryOp \/ visit_Lambda \/ visit_IfExp
    \/ visit_Dict \/ visit_KeyValuePair \/ visit_Set \/ visit_ListComp \/ visit_SetComp
    \/ visit_GeneratorExp \/ visit_DictComp \/ visit_Yield \/ visit_Compare
    \/ visit_Call \/ push_callargs \/ visit_StarArg \/ visit_DoubleStarArg
    \/ visit_KeywordArg \/ visit_Num \/ visit_Str \/ visit_Attribute \/ visit_Subscript
    \/ visit_Name \/ visit_List \/ visit_Tuple \/ visit_Ellipsis \/ visit_Slice
    \/ visit_ExtSlice \/ visit_Index \/ visit_operator \/ visit_comprehension
    \/ visit_arguments \/ visit_keyword \/ visit_alias
    \/ write \/ write_indentation \/ write_newline \/ add_indentation \/ dedent
    \/ pop_node
    \/ write_expression_list \/ wel_next \/ wel_return \/ wel_break \/ wel_close
    \/ propagate \/ decompile_raise \/ decompile_return

Spec == Init /\ [][Next]_vars


----------------------------------------------------------------------------
(* Properties.                                                             *)

\* ''.join(strs) as one string
RECURSIVE Text(_)
Text(strs) == IF strs = <<>> THEN "" ELSE Head(strs) \o Text(Tail(strs))

\* decompile(t) with the default line length has returned
Returned(t) == pc = "done" /\ tree = t /\ max_line_length = DefaultLineLength

----------------------------------------------------------------------------
(* ast.parse(new_code) of the round-trip check (tests.py, check): the      *)
(* Python 2 tokenizer and grammar, for module-level simple statements      *)
(* (expression statement, assignment, return, del) over names, numbers,    *)
(* operators, lambda, conditional expressions, calls, attributes, indexes, *)
(* lists and tuples.  The text is tokenized piece by piece: no two pieces  *)
(* written next to each other by the handlers of these node classes run    *)
(* into one token.  The expression context (Load, Store, ...) is not part  *)
(* of the model's trees and is not compared.                               *)

\* the tokens of one written piece
Tokenize(piece) ==
    CASE piece = "\n" -> <<"NEWLINE">>
      [] piece = Spaces(Len(piece)) -> <<>>
      [] piece \in {", ", ","} -> <<",">>
      [] piece \in {" = ", " ="} -> <<"=">>
      [] piece \in {" or ", " or"} -> <<"or">>
      [] piece \in {" and ", " and"} -> <<"and">>
      [] piece = ": " -> <<":">>
      [] piece = " if " -> <<"if">>
      [] piece = " else " -> <<"else">>
      [] piece = "not " -> <<"not">>
      [] piece = "is not" -> <<"is", "not">>
      [] piece = "not in" -> <<"not", "in">>
      [] piece = "del " -> <<"del">>
      [] piece = "()" -> <<"(", ")">>
      [] OTHER -> <<piece>>

\* the token stream of a text; NEWLINE inside brackets is not a token
RECURSIVE Tokens(_, _)
Tokens(pieces, depth) ==
    IF pieces = <<>> THEN <<>>
    ELSE LET toks == Tokenize(Head(pieces))
             opens == Cardinality({i \in 1..Len(toks) : toks[i] \in {"(", "["}})
             closes == Cardinality({i \in 1..Len(toks) : toks[i] \in {")", "]"}})
         IN  (IF depth > 0 /\ toks = <<"NEWLINE">> THEN <<>> ELSE toks)
             \o Tokens(Tail(pieces), depth + opens - closes)

Keywords == {"lambda", "if", "else", "or", "and", "not", "in", "is", "return", "del",
             "print", "import", "from", "global", "exec", "yield", "pass", "for", "while"}
Punctuation ==
    {"(", ")", "[", "]", ",", "=", ":", ".", "NEWLINE", "EOF", "+", "-", "*", "/", "%",
     "**", "<<", ">>", "|", "^", "&", "//", "~", "<", ">", "==", "!=", "<=", ">="}
NumberTokens == {ToString(n) : n \in 0..9}
IsNameToken(tok) == tok \notin Keywords \cup Punctuation \cup NumberTokens

Peek(toks) == IF toks = <<>> THEN "EOF" ELSE Head(toks)
SyntaxError == [ok |-> FALSE, node |-> NoNode, rest |-> <<>>]
Parsed(node, rest) == [ok |-> TRUE, node |-> node, rest |-> rest]

\* the operator class of a binary operator token
BinOpOf(tok) == CHOOSE k \in BinOpKinds : _OP_TO_STR(k) = tok
\* expr, xor_expr, and_expr, shift_expr, arith_expr, term: the operators of each level
LevelOps(level) ==
    CASE level = 1 -> {"|"} [] level = 2 -> {"^"} [] level = 3 -> {"&"}
      [] level = 4 -> {"<<", ">>"} [] level = 5 -> {"+", "-"}
      [] level = 6 -> {"*", "/", "%", "//"}

RECURSIVE Parse_test(_)
RECURSIVE Parse_or_test(_)
RECURSIVE Parse_or_rest(_, _)
RECURSIVE Parse_and_test(_)
RECURSIVE Parse_and_rest(_, _)
RECURSIVE Parse_not_test(_)
RECURSIVE Parse_comparison(_)
RECURSIVE Parse_comp_rest(_, _, _, _)
RECURSIVE Parse_binary(_, _)
RECURSIVE Parse_binary_rest(_, _, _)
RECURSIVE Parse_factor(_)
RECURSIVE Parse_power(_)
RECURSIVE Parse_trailers(_, _)
RECURSIVE Parse_atom(_)
RECURSIVE Parse_exprs(_, _, _)
RECURSIVE Parse_testlist(_)
RECURSIVE Parse_arglist(_, _)
RECURSIVE Parse_varargslist(_, _)

\* test (',' test)* [',']: the tests, and whether a comma was seen
Parse_exprs(acc, comma, toks) ==
    LET t == Parse_test(toks)
    IN  IF ~t.ok THEN [ok |-> FALSE, nodes |-> <<>>, comma |-> FALSE, rest |-> <<>>]
        ELSE IF Peek(t.rest) # ","
             THEN [ok |-> TRUE, nodes |-> Append(acc, t.node), comma |-> comma,
                   rest |-> t.rest]
             ELSE IF Peek(Tail(t.rest)) \in {")", "]", "=", "EOF"}
                  THEN [ok |-> TRUE, nodes |-> Append(acc, t.node), comma |-> TRUE,
                        rest |-> Tail(t.rest)]
                  ELSE Parse_exprs(Append(acc, t.node), TRUE, Tail(t.rest))

\* testlist: one test, or a tuple when a comma follows
Parse_testlist(toks) ==
    LET es == Parse_exprs(<<>>, FALSE, toks)
    IN  IF ~es.ok THEN SyntaxError
        ELSE IF es.comma THEN Parsed(Tuple(es.nodes), es.rest)
             ELSE Parsed(es.nodes[1], es.rest)

\* varargslist of a lambda: plain parameter names
Parse_varargslist(acc, toks) ==
    IF Peek(toks) = ":" /\ acc # <<>> THEN SyntaxError
    ELSE IF ~IsNameToken(Peek(toks)) THEN SyntaxError
    ELSE LET names == Append(acc, Name(Head(toks)))
             after == Tail(toks)
         IN  IF Peek(after) = "," THEN Parse_varargslist(names, Tail(after))
             ELSE Parsed(arguments(names, "", "", <<>>), after)

\* test: or_test ['if' or_test 'else' test] | lambdef
Parse_test(toks) ==
    IF Peek(toks) = "lambda"
    THEN LET args == IF Peek(Tail(toks)) = ":" THEN Parsed(NoArgs, Tail(toks))
                     ELSE Parse_varargslist(<<>>, Tail(toks))
         IN  IF ~args.ok \/ Peek(args.rest) # ":" THEN SyntaxError
             ELSE LET body == Parse_test(Tail(args.rest))
                  IN  IF ~body.ok THEN SyntaxError
                      ELSE Parsed(Lambda(args.node, body.node), body.rest)
    ELSE LET first == Parse_or_test(toks)
         IN  IF ~first.ok THEN SyntaxError
             ELSE IF Peek(first.rest) # "if" THEN first
             ELSE LET cond == Parse_or_test(Tail(first.rest))
                  IN  IF ~cond.ok \/ Peek(cond.rest) # "else" THEN SyntaxError
                      ELSE LET other == Parse_test(Tail(cond.rest))
                           IN  IF ~other.ok THEN SyntaxError
                               ELSE Parsed(IfExp(cond.node, first.node, other.node),
                                           other.rest)

\* or_test: and_test ('or' and_test)*
Parse_or_rest(values, toks) ==
    IF Peek(toks) = "or"
    THEN LET r == Parse_and_test(Tail(toks))
         IN  IF ~r.ok THEN SyntaxError ELSE Parse_or_rest(Append(values, r.node), r.rest)
    ELSE Parsed(IF Len(values) = 1 THEN values[1] ELSE BoolOp("Or", values), toks)
Parse_or_test(toks) ==
    LET first == Parse_and_test(toks)
    IN  IF ~first.ok THEN SyntaxError ELSE Parse_or_rest(<<first.node>>, first.rest)

\* and_test: not_test ('and' not_test)*
Parse_and_rest(values, toks) ==
    IF Peek(toks) = "and"
    THEN LET r == Parse_not_test(Tail(toks))
         IN  IF ~r.ok THEN SyntaxError ELSE Parse_and_rest(Append(values, r.node), r.rest)
    ELSE Parsed(IF Len(values) = 1 THEN values[1] ELSE BoolOp("And", values), toks)
Parse_and_test(toks) ==
    LET first == Parse_not_test(toks)
    IN  IF ~first.ok THEN SyntaxError ELSE Parse_and_rest(<<first.node>>, first.rest)

\* not_test: 'not' not_test | comparison
Parse_not_test(toks) ==
    IF Peek(toks) = "not"
    THEN LET r == Parse_not_test(Tail(toks))
         IN  IF ~r.ok THEN SyntaxError ELSE Parsed(UnaryOp("Not", r.node), r.rest)
    ELSE Parse_comparison(toks)

\* comparison: expr (comp_op expr)*
Parse_comp_rest(left, ops, comparators, toks) ==
    LET t1 == Peek(toks)
        t2 == IF toks = <<>> THEN "EOF" ELSE Peek(Tail(toks))
        two == (t1 = "not" /\ t2 = "in") \/ (t1 = "is" /\ t2 = "not")
        one == t1 \in {"<", ">", "==", ">=", "<=", "!=", "in", "is"}
        op == IF t1 = "not" THEN "NotIn"
              ELSE IF t1 = "is" THEN (IF two THEN "IsNot" ELSE "Is")
              ELSE IF t1 = "in" THEN "In"
              ELSE CHOOSE k \in CmpOpKinds : _OP_TO_STR(k) = t1
    IN  IF ~(one \/ two)
        THEN Parsed(IF ops = <<>> THEN left ELSE Compare(left, ops, comparators), toks)
        ELSE LET r == Parse_binary(1, IF two THEN Tail(Tail(toks)) ELSE Tail(toks))
             IN  IF ~r.ok THEN SyntaxError
                 ELSE Parse_comp_rest(left, Append(ops, op), Append(comparators, r.node),
                                      r.rest)
Parse_comparison(toks) ==
    LET first == Parse_binary(1, toks)
    IN  IF ~first.ok THEN SyntaxError
        ELSE Parse_comp_rest(first.node, <<>>, <<>>, first.rest)

\* the left-associative binary operators, loosest level first
Parse_binary_rest(level, left, toks) ==
    IF Peek(toks) \in LevelOps(level)
    THEN LET r == Parse_binary(level + 1, Tail(toks))
         IN  IF ~r.ok THEN SyntaxError
             ELSE Parse_binary_rest(level, BinOp(left, BinOpOf(Head(toks)), r.node), r.rest)
    ELSE Parsed(left, toks)
Parse_binary(level, toks) ==
    IF level > 6 THEN Parse_factor(toks)
    ELSE LET first == Parse_binary(level + 1, toks)
         IN  IF ~first.ok THEN SyntaxError
             ELSE Parse_binary_rest(level, first.node, first.rest)

\* factor: ('+'|'-'|'~') factor | power
Parse_factor(toks) ==
    IF Peek(toks) \in {"+", "-", "~"}
    THEN LET r == Parse_factor(Tail(toks))
             op == CASE Head(toks) = "+" -> "UAdd" [] Head(toks) = "-" -> "USub"
                     [] OTHER -> "Invert"
         IN  IF ~r.ok THEN SyntaxError ELSE Parsed(UnaryOp(op, r.node), r.rest)
    ELSE Parse_power(toks)

\* power: atom trailer* ['**' factor]
Parse_power(toks) ==
    LET at == Parse_atom(toks)
    IN  IF ~at.ok THEN SyntaxError
        ELSE LET tr == Parse_trailers(at.node, at.rest)
             IN  IF ~tr.ok THEN SyntaxError
                 ELSE IF Peek(tr.rest) # "**" THEN tr
                 ELSE LET f == Parse_factor(Tail(tr.rest))
                      IN  IF ~f.ok THEN SyntaxError
                          ELSE Parsed(BinOp(tr.node, "Pow", f.node), f.rest)

\* arglist: positional arguments, keyword arguments, *args, **kwargs
Parse_arglist(call, toks) ==
    IF Peek(toks) = ")" THEN Parsed(call, Tail(toks))
    ELSE IF Peek(toks) \in {"*", "**"}
    THEN LET r == Parse_test(Tail(toks))
             star == Head(toks) = "*"
         IN  IF ~r.ok \/ ~IsNone(call.kwargs) \/ (star /\ ~IsNone(call.starargs))
             THEN SyntaxError
             ELSE LET next == IF star THEN [call EXCEPT !.starargs = r.node]
                              ELSE [call EXCEPT !.kwargs = r.node]
                  IN  IF Peek(r.rest) = "," THEN Parse_arglist(next, Tail(r.rest))
                      ELSE IF Peek(r.rest) = ")" THEN Parsed(next, Tail(r.rest))
                      ELSE SyntaxError
    ELSE LET r == Parse_test(toks)
         IN  IF ~r.ok THEN SyntaxError
             ELSE IF Peek(r.rest) = "="
             THEN LET v == Parse_test(Tail(r.rest))
                  IN  IF ~v.ok \/ r.node.kind # "Name" \/ ~IsNone(call.kwargs)
                      THEN SyntaxError
                      ELSE LET next == [call EXCEPT
                                           !.keywords = Append(@, keyword(r.node.id, v.node))]
                           IN  IF Peek(v.rest) = "," THEN Parse_arglist(next, Tail(v.rest))
                               ELSE IF Peek(v.rest) = ")" THEN Parsed(next, Tail(v.rest))
                               ELSE SyntaxError
             ELSE IF call.keywords # <<>> \/ ~IsNone(call.starargs) \/ ~IsNone(call.kwargs)
             THEN SyntaxError
             ELSE LET next == [call EXCEPT !.args = Append(@, r.node)]
                  IN  IF Peek(r.rest) = "," THEN Parse_arglist(next, Tail(r.rest))
                      ELSE IF Peek(r.rest) = ")" THEN Parsed(next, Tail(r.rest))
                      ELSE SyntaxError

\* trailer: '(' [arglist] ')' | '[' subscriptlist ']' | '.' NAME
Parse_trailers(node, toks) ==
    CASE Peek(toks) = "(" ->
            LET r == Parse_arglist(Call(node, <<>>, <<>>, NoNode, NoNode), Tail(toks))
            IN  IF ~r.ok THEN SyntaxError ELSE Parse_trailers(r.node, r.rest)
      [] Peek(toks) = "[" ->
            LET r == Parse_testlist(Tail(toks))
            IN  IF ~r.ok \/ Peek(r.rest) # "]" THEN SyntaxError
                ELSE Parse_trailers(Subscript(node, Index(r.node)), Tail(r.rest))
      [] Peek(toks) = "." ->
            IF IsNameToken(Peek(Tail(toks)))
            THEN Parse_trailers(Attribute(node, Head(Tail(toks))), Tail(Tail(toks)))
            ELSE SyntaxError
      [] OTHER -> Parsed(node, toks)

\* atom: '(' [testlist_comp] ')' | '[' [listmaker] ']' | NAME | NUMBER
Parse_atom(toks) ==
    CASE Peek(toks) = "(" ->
            IF Peek(Tail(toks)) = ")" THEN Parsed(Tuple(<<>>), Tail(Tail(toks)))
            ELSE LET r == Parse_testlist(Tail(toks))
                 IN  IF ~r.ok \/ Peek(r.rest) # ")" THEN SyntaxError
                     ELSE Parsed(r.node, Tail(r.rest))
      [] Peek(toks) = "[" ->
            IF Peek(Tail(toks)) = "]" THEN Parsed(List(<<>>), Tail(Tail(toks)))
            ELSE LET r == Parse_exprs(<<>>, FALSE, Tail(toks))
                 IN  IF ~r.ok \/ Peek(r.rest) # "]" THEN SyntaxError
                     ELSE Parsed(List(r.nodes), Tail(r.rest))
      [] Peek(toks) \in NumberTokens ->
            Parsed(Num(CHOOSE n \in 0..9 : ToString(n) = Head(toks)), Tail(toks))
      [] IsNameToken(Peek(toks)) -> Parsed(Name(Head(toks)), Tail(toks))
      [] OTHER -> SyntaxError

\* expr_stmt: testlist ('=' testlist)*
RECURSIVE Parse_expr_stmt(_, _)
Parse_expr_stmt(targets, toks) ==
    LET r == Parse_testlist(toks)
    IN  IF ~r.ok THEN SyntaxError
        ELSE IF Peek(r.rest) = "=" THEN Parse_expr_stmt(Append(targets, r.node), Tail(r.rest))
        ELSE IF targets = <<>> THEN Parsed(Expr(r.node), r.rest)
        ELSE Parsed(Assign(targets, r.node), r.rest)

\* simple_stmt: one logical line
Parse_stmt(toks) ==
    LET r == CASE Peek(toks) = "return" ->
                    IF Tail(toks) = <<>> THEN Parsed(Return(NoNode), <<>>)
                    ELSE LET v == Parse_testlist(Tail(toks))
                         IN  IF ~v.ok THEN SyntaxError ELSE Parsed(Return(v.node), v.rest)
               [] Peek(toks) = "del" ->
                    LET es == Parse_exprs(<<>>, FALSE, Tail(toks))
                    IN  IF ~es.ok THEN SyntaxError ELSE Parsed(Delete(es.nodes), es.rest)
               [] OTHER -> Parse_expr_stmt(<<>>, toks)
    IN  IF r.ok /\ r.rest = <<>> THEN r ELSE SyntaxError

\* file_input: the statements of the logical lines
RECURSIVE Parse_file_input(_, _, _)
Parse_file_input(body, line, toks) ==
    IF toks = <<>>
    THEN IF line = <<>> THEN Parsed(Module(body), <<>>) ELSE SyntaxError
    ELSE IF Head(toks) = "NEWLINE"
         THEN LET st == Parse_stmt(line)
              IN  IF ~st.ok THEN SyntaxError
                  ELSE Parse_file_input(Append(body, st.node), <<>>, Tail(toks))
         ELSE Parse_file_input(body, Append(line, Head(toks)), Tail(toks))

\* ast.parse(text)
Parse(text) == Parse_file_input(<<>>, <<>>, Tokens(text, 0))

\* the trees whose text lies within this grammar
RECURSIVE Parseable_expr(_)
Parseable_all(es) == \A i \in 1..Len(es) : Parseable_expr(es[i])
Parseable_expr(e) ==
    CASE e.kind = "Name" -> TRUE
      [] e.kind = "Num" -> e.n \in 0..9
      [] e.kind = "BinOp" -> Parseable_expr(e.left) /\ Parseable_expr(e.right)
      [] e.kind = "UnaryOp" ->
            Parseable_expr(e.operand) /\ ~(e.op.kind = "USub" /\ e.operand.kind = "Num")
      [] e.kind = "BoolOp" -> Len(e.values) >= 2 /\ Parseable_all(e.values)
      [] e.kind = "Compare" ->
            /\ Parseable_expr(e.left) /\ Parseable_all(e.comparators)
            /\ Len(e.ops) = Len(e.comparators) /\ e.ops # <<>>
      [] e.kind = "Lambda" ->
            /\ e.args.vararg = "" /\ e.args.kwarg = "" /\ e.args.defaults = <<>>
            /\ \A i \in 1..Len(e.args.args) : e.args.args[i].kind = "Name"
            /\ Parseable_expr(e.body)
      [] e.kind = "IfExp" ->
            Parseable_expr(e.test) /\ Parseable_expr(e.body) /\ Parseable_expr(e.orelse)
      [] e.kind = "Call" ->
            /\ Parseable_expr(e.func) /\ Parseable_all(e.args)
            /\ \A i \in 1..Len(e.keywords) : Parseable_expr(e.keywords[i].value)
            /\ IsNone(e.starargs) \/ Parseable_expr(e.starargs)
            /\ IsNone(e.kwargs) \/ Parseable_expr(e.kwargs)
      [] e.kind = "Attribute" -> Parseable_expr(e.value)
      [] e.kind = "Subscript" ->
            Parseable_expr(e.value) /\ e.slice.kind = "Index" /\ Parseable_expr(e.slice.value)
      [] e.kind \in {"List", "Tuple"} -> Parseable_all(e.elts)
      [] OTHER -> FALSE

Parseable_stmt(st) ==
    CASE st.kind = "Expr" -> Parseable_expr(st.value)
      [] st.kind = "Assign" ->
            st.targets # <<>> /\ Parseable_all(st.targets) /\ Parseable_expr(st.value)
      [] st.kind = "Return" -> IsNone(st.value) \/ Parseable_expr(st.value)
      [] st.kind = "Delete" -> st.targets # <<>> /\ Parseable_all(st.targets)
      [] OTHER -> FALSE

Parseable(t) == t.kind = "Module" /\ \A i \in 1..Len(t.body) : Parseable_stmt(t.body[i])


(* C1: round trip.  For every syntactically valid tree T built from        *)
(* supported node kinds, parsing decompile(T) succeeds and yields a tree   *)
(* whose structural dump equals the dump of T.                             *)
C1_RoundTrip ==
    (pc = "done" /\ Parseable(tree)) => Parse(result) = Parsed(tree, <<>>)

(* C2: whenever decompile completes without raising, the returned string   *)
(* holds all the text that was emitted and not rolled back: the completed  *)
(* lines and the in-progress line, which is empty at the end.              *)
C2_FullTextOnCompletion ==
    pc = "done" => (current_line = <<>> /\ result = Flatten(lines) \o current_line)

(* C4: a binary-operator expression is parenthesized when its precedence   *)
(* is strictly lower than its parent's; at equal precedence only the left  *)
(* operand of ** and only the right operand of a left-associative operator *)
(* is parenthesized; at higher precedence it is not parenthesized.         *)
\* the rule of the claim, for a BinOp about to be visited under `parent`
C4_Rule(node, path, parent) ==
    LET mine == precedence_of_node(node)
        theirs == precedence_of_node(parent.node)
    IN  \/ mine < theirs
        \/ /\ mine = theirs
           /\ \/ node.op.kind = "Pow" /\ path = Sub(parent.path, "left")
              \/ node.op.kind # "Pow" /\ path = Sub(parent.path, "right")

\* the handler just entered wrote its operands between parentheses
C4_Parenthesized(steps) == steps[1] = W1("(") /\ steps[7] = W1(")")
C4_Bare(steps) == steps[1].t = "visit" /\ steps[5].t = "visit" /\ steps[6] = Pop

C4_BinOpStep ==
    Dispatch("BinOp") =>
        IF C4_Rule(Top.node, Top.path, Parent)
        THEN C4_Parenthesized(ctl') ELSE C4_Bare(ctl')

C4_Examples ==
    /\ Returned(Stmt(BinOp(BinOp(a, "Pow", b), "Pow", c))) => Text(result) = "(a ** b) ** c\n"
    /\ Returned(Stmt(BinOp(a, "Pow", BinOp(b, "Pow", c)))) => Text(result) = "a ** b ** c\n"
    /\ Returned(Stmt(BinOp(a, "Sub", BinOp(b, "Sub", c)))) => Text(result) = "a - (b - c)\n"
    /\ Returned(Stmt(BinOp(BinOp(a, "Sub", b), "Sub", c))) => Text(result) = "a - b - c\n"
    /\ Returned(Stmt(BinOp(a, "Add", BinOp(b, "Mult", c)))) => Text(result) = "a + b * c\n"
    /\ Returned(Stmt(BinOp(BinOp(a, "Add", b), "Mult", c))) => Text(result) = "(a + b) * c\n"
    /\ Returned(Stmt(BinOp(BinOp(a, "Add", b), "Add", BinOp(a, "Add", b)))) =>
           Text(result) = "a + b + (a + b)\n"

C4_BinOpParenthesization == [][C4_BinOpStep]_vars /\ []C4_Examples

C4_Witness ==
    /\ Returned(Stmt(BinOp(BinOp(a, "Pow", b), "Pow", c)))
    /\ Text(result) = "(a ** b) ** c\n"

(* C5: a lambda or a conditional expression is parenthesized as an operand *)
(* of a binary, unary or comparison operator and as the callee of a call   *)
(* or the base of an attribute access or subscript; a conditional          *)
(* expression also as the test or the true branch of a conditional         *)
(* expression; as a call argument neither is parenthesized.                *)
C5_MustParenthesize(node, path, parent) ==
    \/ parent.node.kind \in {"BinOp", "UnaryOp", "Compare"}
    \/ parent.node.kind = "Call" /\ path = Sub(parent.path, "func")
    \/ parent.node.kind \in {"Attribute", "Subscript"} /\ path = Sub(parent.path, "value")
    \/ /\ node.kind = "IfExp" /\ parent.node.kind = "IfExp"
       /\ path \in {Sub(parent.path, "test"), Sub(parent.path, "body")}

\* the node about to be visited is an argument of a call: positional, keyword or starred
C5_IsCallArgument(parent, stack) ==
    \/ parent.node.kind = "_CallArgs"
    \/ /\ parent.node.kind \in {"keyword", "StarArg", "DoubleStarArg"}
       /\ Len(stack) >= 2 /\ stack[Len(stack) - 1].node.kind = "_CallArgs"

C5_Parenthesized(steps) == steps[1] = W1("(") /\ steps[Len(steps) - Len(ctl)] = W1(")")

C5_Step ==
    (Dispatch("Lambda") \/ Dispatch("IfExp")) =>
        /\ C5_MustParenthesize(Top.node, Top.path, Parent) => C5_Parenthesized(ctl')
        /\ C5_IsCallArgument(Parent, node_stack) => ~C5_Parenthesized(ctl')

C5_Examples ==
    /\ Returned(Stmt(Call0(Lambda0, <<a>>))) => Text(result) = "(lambda: x)(a)\n"
    /\ Returned(Stmt(Call0(Name("f"), <<Lambda0>>))) => Text(result) = "f(lambda: x)\n"
    /\ Returned(Stmt(Call0(Name("f"), <<a, IfExp0>>))) => Text(result) = "f(a, b if a else c)\n"
    /\ Returned(Stmt(BinOp(IfExp0, "Add", a))) => Text(result) = "(b if a else c) + a\n"
    /\ Returned(Stmt(UnaryOp("Not", Lambda0))) => Text(result) = "not (lambda: x)\n"
    /\ Returned(Stmt(Attribute(IfExp0, "attr"))) => Text(result) = "(b if a else c).attr\n"
    /\ Returned(Stmt(Subscript(Lambda0, Index(a)))) => Text(result) = "(lambda: x)[a]\n"
    /\ Returned(Stmt(IfExp(IfExp0, a, b))) => Text(result) = "a if (b if a else c) else b\n"
    /\ Returned(Stmt(IfExp(a, IfExp0, b))) => Text(result) = "(b if a else c) if a else b\n"

C5_LambdaIfExpParenthesization == [][C5_Step]_vars /\ []C5_Examples

C5_Witness ==
    /\ Returned(Stmt(Compare(a, <<"Eq", "In">>, <<b, IfExp0>>)))
    /\ Text(result) = "a == b in (b if a else c)\n"


(* C6: an empty tuple renders as (); a single-element tuple keeps a        *)
(* trailing comma; a tuple of two or more elements is enclosed in          *)
(* parentheses unless its immediate parent is an expression statement, an  *)
(* assignment, an augmented assignment, a return or a yield, where it      *)
(* renders as a bare comma-joined list.  As amended: the bare form is used *)
(* when it fits the line width; when the inline rendering overflows, the   *)
(* tuple is rendered as a parenthesized multi-line list.                   *)
C6_BareParents == {"Expr", "Assign", "AugAssign", "Return", "Yield"}

C6_TupleStep ==
    Dispatch("Tuple") =>
        LET n == Len(Top.node.elts)
            bare == Parent.node.kind \in C6_BareParents
            steps == ctl'
        IN  /\ n = 0 => steps[1] = W1("()") /\ steps[2] = Pop
            /\ n = 1 /\ bare => steps[1].t = "visit" /\ steps[2] = W1(",") /\ steps[3] = Pop
            /\ n = 1 /\ ~bare => /\ steps[1] = W1("(") /\ steps[2].t = "visit"
                                 /\ steps[3] = W1(",") /\ steps[4] = W1(")")
            /\ n >= 2 /\ ~bare => /\ steps[1] = W1("(") /\ steps[3] = W1(")")
                                  /\ steps[2].t = "write_expression_list"
                                  /\ ~steps[2].need_parens
            /\ n >= 2 /\ bare => steps[1].t = "write_expression_list" /\ steps[2] = Pop

\* "aaa, bbb, ..." and its multi-line form "(\n    aaa,\n    bbb,\n)"
RECURSIVE C6_Joined(_)
C6_Joined(n) == IF n = 1 THEN Item(1).id ELSE C6_Joined(n - 1) \o ", " \o Item(n).id
RECURSIVE C6_Rows(_)
C6_Rows(n) ==
    IF n = 0 THEN "" ELSE C6_Rows(n - 1) \o Spaces(indentation) \o Item(n).id \o ",\n"
C6_Broken(n) == "(\n" \o C6_Rows(n) \o ")"

\* the statements of the model in which a tuple stands bare: the text before and after it
C6_BareStatements(t) ==
    {[st |-> Expr(t), pre |-> "", post |-> ""],
     [st |-> Assign(<<x>>, t), pre |-> "x = ", post |-> ""],
     [st |-> Assign(<<t>>, x), pre |-> "", post |-> " = x"],
     [st |-> AugAssign(x, "Add", t), pre |-> "x += ", post |-> ""],
     [st |-> Return(t), pre |-> "return ", post |-> ""],
     [st |-> Expr(Yield(t)), pre |-> "yield ", post |-> ""],
     [st |-> Assign(<<x>>, Yield(t)), pre |-> "x = yield ", post |-> ""]}

C6_Small ==
    /\ Returned(Stmt(Call0(Name("f"), <<Tuple(<<>>)>>))) => Text(result) = "f(())\n"
    /\ Returned(Module(<<Return(Tuple(<<>>))>>)) => Text(result) = "return ()\n"
    /\ Returned(Stmt(List(<<Tuple(Items(1))>>))) => Text(result) = "[(aaa,)]\n"
    /\ Returned(Module(<<Return(Tuple(Items(1)))>>)) => Text(result) = "return aaa,\n"
    /\ Returned(Stmt(List(<<Tuple(Items(2))>>))) => Text(result) = "[(aaa, bbb)]\n"
    /\ Returned(Module(<<For(Tuple(Items(2)), a, <<Pass>>, <<>>)>>)) =>
           Text(result) = "for (aaa, bbb) in a:\n    pass\n"

\* the bare statements, whatever the line width: the claim as written
C6_BareAlways ==
    \A n \in 2..MaxElts : \A s \in C6_BareStatements(Tuple(Items(n))) :
        (pc = "done" /\ tree = Module(<<s.st>>)) =>
            Text(result) = s.pre \o C6_Joined(n) \o s.post \o "\n"

C6_Original == C6_Small /\ C6_BareAlways

\* the bare statements: bare when the list stayed inline, parenthesized when it fell back
C6_BareIfFits ==
    \A n \in 2..MaxElts : \A s \in C6_BareStatements(Tuple(Items(n))) :
        (pc = "done" /\ tree = Module(<<s.st>>)) =>
            Text(result) = s.pre \o (IF hist.breaks = 0 THEN C6_Joined(n) ELSE C6_Broken(n))
                           \o s.post \o "\n"

C6_TupleRendering == [][C6_TupleStep]_vars /\ [](C6_Small /\ C6_BareIfFits)

C6_Witness ==
    /\ pc = "done" /\ tree = Module(<<Return(Tuple(Items(2)))>>) /\ hist.breaks = 1
    /\ Text(result) = "return (\n    aaa,\n    bbb,\n)\n"


(* C7: when the traversal reaches a node whose class has no visit_ method, *)
(* decompile raises NotImplementedError at that node: the node is not      *)
(* skipped, no later node is visited, nothing more is written and nothing  *)
(* is returned; also when the node is reached inside the inline attempt of *)
(* a delimited list or inside a nested block.                              *)
C7_Unsupported == Running /\ Top.t = "visit" /\ Top.node.kind \notin HandledKinds

C7_Step ==
    /\ C7_Unsupported =>
           /\ exc' = "NotImplementedError"
           /\ lines' = lines /\ current_line' = current_line
    /\ exc # "none" =>
           /\ exc' = exc /\ result' = NoResult
           /\ lines' = lines /\ current_line' = current_line
           /\ Len(node_stack') <= Len(node_stack)
           /\ has_unicode_literals' = has_unicode_literals

C7_Outcome ==
    /\ tree \in UnsupportedPrograms => pc # "done" /\ result = NoResult
    /\ pc = "raised" =>
           exc = "NotImplementedError" /\ result = NoResult /\ node_stack = <<>>

C7_UnsupportedNodeKind == [][C7_Step]_vars /\ []C7_Outcome

\* raised from inside the inline attempt of a list inside an if block
C7_Witness ==
    /\ pc = "raised" /\ exc = "NotImplementedError" /\ result = NoResult
    /\ tree = Module(<<If(a, <<Expr(List(Items(MaxElts) \o <<Bad>>))>>, <<>>)>>)
    /\ max_line_length = DefaultLineLength /\ hist.breaks = 0
    /\ hist.raised_at = <<<<"body", 1>>, <<"body", 1>>, <<"value", 0>>, <<"elts", MaxElts + 1>>>>

(* C8: within one traversal a str literal is written with the b prefix if  *)
(* and only if a `from __future__ import unicode_literals` statement was   *)
(* visited earlier in that traversal; literals before it are unaffected,   *)
(* and the flag, once set, stays set.                                      *)
\* the statement `from __future__ import ..., unicode_literals, ...`
C8_IsFutureImport(node) ==
    /\ node.kind = "ImportFrom" /\ node.module = "__future__" /\ node.level = 0
    /\ \E i \in 1..Len(node.names) : node.names[i].name = "unicode_literals"

\* such a statement was visited before event i of the traversal
C8_SeenBefore(i) ==
    \E j \in 1..(i - 1) :
        hist.log[j].ev = "ImportFrom" /\ C8_IsFutureImport(hist.log[j].node)

C8_OrderSensitiveMarker ==
    /\ \A i \in 1..Len(hist.log) :
           hist.log[i].ev = "Str" =>
               (hist.log[i].b <=> (hist.log[i].node.ty = "str" /\ C8_SeenBefore(i)))
    /\ has_unicode_literals <=> C8_SeenBefore(Len(hist.log) + 1)

(* C9: an if statement whose else branch is exactly one if statement is    *)
(* written as an elif clause at the indentation of the first if, for as    *)
(* long as the pattern holds; the final else: clause is written only when  *)
(* the last if of the chain has a non-empty else branch; no branch of the  *)
(* chain is written deeper than the first.                                 *)
\* the text the claim prescribes for a block of pass / break / continue / if / while
RECURSIVE C9_Block(_, _)
RECURSIVE C9_If(_, _, _)
RECURSIVE C9_Stmt(_, _)
C9_Else(orelse, ind) ==
    IF orelse = <<>> THEN ""
    ELSE Spaces(ind) \o "else:\n" \o C9_Block(orelse, ind + indentation)
C9_If(st, ind, keyword_text) ==
    Spaces(ind) \o keyword_text \o st.test.id \o ":\n"
    \o C9_Block(st.body, ind + indentation)
    \o (IF Len(st.orelse) = 1 /\ st.orelse[1].kind = "If"
        THEN C9_If(st.orelse[1], ind, "elif ")
        ELSE C9_Else(st.orelse, ind))
C9_Stmt(st, ind) ==
    CASE st.kind = "Pass" -> Spaces(ind) \o "pass\n"
      [] st.kind = "Break" -> Spaces(ind) \o "break\n"
      [] st.kind = "Continue" -> Spaces(ind) \o "continue\n"
      [] st.kind = "If" -> C9_If(st, ind, "if ")
      [] st.kind = "While" ->
            Spaces(ind) \o "while " \o st.test.id \o ":\n"
            \o C9_Block(st.body, ind + indentation) \o C9_Else(st.orelse, ind)
C9_Block(stmts, ind) ==
    IF stmts = <<>> THEN "" ELSE C9_Stmt(Head(stmts), ind) \o C9_Block(Tail(stmts), ind)

C9_ElifCollapsing ==
    (pc = "done" /\ tree \in IfPrograms) => Text(result) = C9_Block(tree.body, 0)

C9_Witness ==
    /\ pc = "done" /\ tree = Module(<<Chain(3, <<Break, If(b, <<Pass>>, <<>>)>>)>>)
    /\ Text(result) = "if ccc:\n    pass\nelif bbb:\n    pass\nelif a:\n    pass\nelse:\n"
                      \o "    break\n    if b:\n        pass\n"

(* C10: after decompile returns or raises, and at every point before, the  *)
(* input tree is what it was before the call: same fields, same child      *)
(* sequences, same terminal values; the wrapper nodes and the combined     *)
(* argument lists built during emission are never stored into it.          *)
C10_NoMutation == tree = hist.input

C10_Witness ==
    /\ pc = "done" /\ tree = Stmt(Call(Name("f"), <<a>>, <<keyword("k", b)>>, c, x))
    /\ hist.input = tree /\ Text(result) = "f(a, k=b, *c, **x)\n"

(* C3: for a delimited list rendered by write_expression_list, if the      *)
(* inline rendering exceeds the maximum line width, every element is put   *)
(* on its own line one indentation level deeper, with the closing          *)
(* delimiter on a line at the original indentation; a list that fits is    *)
(* written without a line break.  As amended: the fallback is taken when   *)
(* newlines are allowed for the call and the open line exceeds the width   *)
(* right after an element was written; otherwise the list stays inline.    *)
C3_AfterElement == Running /\ Top.t = "wel_after_node"

\* the attempt is undone and the multi-line rendering starts
C3_FallsBack ==
    /\ lines' = SubSeq(lines, 1, Top.last_line)
    /\ current_line' = Top.saved_line
    /\ Head(ctl') = (IF Top.need_parens THEN W1("(") ELSE NL)

\* the list goes on inline; write_expression_list has closed no line of its own
C3_StaysInline ==
    /\ lines' = lines /\ current_line' = current_line
    /\ Top.i < Len(Top.nodes) => Head(ctl') = W1(Top.separator)
    /\ hist.breaks = Top.breaks0 =>
           /\ Len(lines) = Top.last_line
           /\ Len(current_line) > Len(Top.saved_line)
           /\ SubSeq(current_line, 1, Len(Top.saved_line)) = Top.saved_line

\* the claim as written: every list that exceeds the width falls back
C3_OriginalStep ==
    C3_AfterElement =>
        IF current_line_length > max_line_length THEN C3_FallsBack ELSE C3_StaysInline

C3_AmendedStep ==
    C3_AfterElement =>
        IF Top.allow_newlines /\ current_line_length > max_line_length
        THEN C3_FallsBack ELSE C3_StaysInline

\* the closing delimiter goes on a line at the indentation of the call
C3_CloseStep ==
    (Running /\ Top.t = "wel_close") =>
        current_line' = <<Spaces(Top.indentation0)>> \o When(Top.need_parens, <<")">>)

\* the lines of the multi-line rendering, when all elements have been written
C3_Layout ==
    (Running /\ Top.t = "wel_close") =>
        LET first == Top.last_line + 1
            deeper == Top.indentation0 + indentation
        IN  /\ current_line = <<>> /\ current_indentation = Top.indentation0
            /\ Len(lines) >= first + Len(Top.nodes)
            /\ lines[first] = Top.saved_line \o When(Top.need_parens, <<"(">>) \o <<"\n">>
            /\ lines[first + 1][1] = Spaces(deeper)
            /\ \A k \in (first + 1)..Len(lines) :
                   /\ Len(lines[k][1]) >= deeper
                   /\ lines[k][1] = Spaces(Len(lines[k][1]))
            /\ hist.breaks = Top.breaks0 + 1 =>
                   /\ Len(lines) = first + Len(Top.nodes)
                   /\ \A k \in 1..Len(Top.nodes) : lines[first + k][1] = Spaces(deeper)

C3_Original == [][C3_OriginalStep /\ C3_CloseStep]_vars /\ []C3_Layout

C3_OverflowFallback == [][C3_AmendedStep /\ C3_CloseStep]_vars /\ []C3_Layout

C3_Witness ==
    /\ pc = "done" /\ tree = Module(<<If(a, <<Expr(List(Items(3)))>>, <<>>)>>)
    /\ hist.breaks = 1
    /\ Text(result) = "if a:\n    [\n        aaa,\n        bbb,\n        ccc,\n    ]\n"


(* C11: when an inline attempt of write_expression_list aborts, right      *)
(* after the rollback the completed lines and the in-progress line are     *)
(* exactly what they were when the attempt started and the indentation     *)
(* depth is what it was then, for any nesting of lists, also when an inner *)
(* list completed its own multi-line fallback during the outer attempt:    *)
(* nothing written during the failed attempt survives.                     *)
C11_Aborts ==
    /\ Running /\ Top.t = "wel_after_node"
    /\ Top.allow_newlines /\ current_line_length > max_line_length

C11_Step ==
    C11_Aborts =>
        /\ lines' = Top.lines0
        /\ current_line' = Top.saved_line
        /\ current_indentation' = Top.indentation0
        /\ Flatten(lines') \o current_line' = Flatten(Top.lines0) \o Top.saved_line

C11_RollbackRestoresCheckpoint == [][C11_Step]_vars

\* the outer list aborts after the inner list closed lines of its own
C11_InnerLinesDropped ==
    C11_Aborts /\ Len(lines) > Top.last_line /\ hist.breaks > Top.breaks0

C11_Witness ==
    /\ C11_InnerLinesDropped
    /\ tree = Module(<<Expr(List(<<List(Items(3)), LongName>>))>>)
    /\ Text(Flatten(lines)) = "[[\n    aaa,\n    bbb,\n    ccc,\n"
    /\ Text(current_line) = "], a_very_long_name"


(* C12: once a line has been closed by write_newline and placed in the     *)
(* completed lines it is never removed or rewritten for the rest of the    *)
(* traversal: the sequence at any later step has the earlier one as a      *)
(* prefix.  As amended: this holds at every step but the rollback of       *)
(* write_expression_list, which cuts the sequence back to its length at    *)
(* the start of the aborted attempt; the lines closed before an attempt    *)
(* that is still open are never removed or rewritten.                      *)
C12_IsPrefix(s, t) == Len(s) <= Len(t) /\ SubSeq(t, 1, Len(s)) = s

\* the claim as written
C12_Original == [][C12_IsPrefix(lines, lines')]_vars

C12_Rollback ==
    /\ Running /\ Top.t = "wel_after_node"
    /\ Top.allow_newlines /\ current_line_length > max_line_length

C12_Step ==
    IF C12_Rollback
    THEN /\ Len(lines') = Top.last_line /\ C12_IsPrefix(lines', lines)
    ELSE /\ C12_IsPrefix(lines, lines')
         /\ Len(lines') <= Len(lines) + 1
         /\ Len(lines') = Len(lines) + 1 =>
                lines'[Len(lines')] = current_line \o <<"\n">> /\ current_line' = <<>>

\* the lines closed before an attempt that is still open are in place
C12_BelowCheckpoints ==
    \A i \in 1..Len(ctl) :
        ctl[i].t = "wel_after_node" =>
            /\ ctl[i].last_line <= Len(lines)
            /\ SubSeq(lines, 1, ctl[i].last_line) = ctl[i].lines0

C12_AppendOnlyButRollback == [][C12_Step]_vars /\ []C12_BelowCheckpoints

C12_Witness ==
    /\ pc = "done" /\ tree = Module(<<Expr(List(<<List(Items(3)), LongName>>))>>)
    /\ max_line_length < DefaultLineLength /\ hist.breaks = 3
    /\ Text(result) = "[\n    [\n        aaa,\n        bbb,\n        ccc,\n    ],\n"
                      \o "    a_very_long_name,\n]\n"


(* C13: at every point of a traversal the length of node_stack equals the  *)
(* depth of nested visit calls, every entry is the node of one open visit, *)
(* and the stack is empty when decompile returns or raises.  As amended:   *)
(* visit_Call pushes a _CallArgs marker around the arguments of the call,  *)
(* so the length is the number of open visits plus the number of open      *)
(* argument lists, and an entry is the node of an open visit or such a     *)
(* marker, which sits right above the entry of its Call node.              *)

\* the visits that are open: each has its finally clause pending
C13_OpenVisits == Cardinality({i \in 1..Len(ctl) : ctl[i] = Pop})
\* the argument lists of visit_Call that are open
C13_OpenCallArgs == Cardinality({i \in 1..Len(ctl) : ctl[i] = PopCallArgs})
C13_IsMarker(entry) == entry.node = _CallArgs
C13_Markers == {i \in 1..Len(node_stack) : C13_IsMarker(node_stack[i])}
\* the entries that are nodes of the tree, not wrappers the handlers build
C13_TreeEntries ==
    {i \in 1..Len(node_stack) :
        node_stack[i].node.kind \notin
            {"_CallArgs", "StarArg", "DoubleStarArg", "KeywordArg", "KeyValuePair"}}
C13_Ended == pc \in {"done", "raised"}

\* the claim as written
C13_Original ==
    /\ Len(node_stack) = C13_OpenVisits
    /\ C13_Markers = {}
    /\ C13_Ended => node_stack = <<>>

\* the entries of visited nodes lie on one path from the root of the tree
C13_Ancestry ==
    /\ node_stack # <<>> => node_stack[1] = Ref(tree, <<>>)
    /\ \A i, j \in C13_TreeEntries :
           i < j => /\ Len(node_stack[i].path) <= Len(node_stack[j].path)
                    /\ SubSeq(node_stack[j].path, 1, Len(node_stack[i].path))
                           = node_stack[i].path

C13_AncestryStack ==
    /\ Len(node_stack) = C13_OpenVisits + C13_OpenCallArgs
    /\ Cardinality(C13_Markers) = C13_OpenCallArgs
    /\ \A i \in C13_Markers : i > 1 /\ node_stack[i - 1].node.kind = "Call"
    /\ C13_Ancestry
    /\ C13_Ended => node_stack = <<>> /\ ctl = <<>>

C13_Witness ==
    /\ pc = "run" /\ exc # "none"
    /\ C13_OpenCallArgs = 1 /\ C13_OpenVisits >= 4
    /\ Len(node_stack) = C13_OpenVisits + 1


(* C14: the indentation depth changes only by entering or leaving an       *)
(* indentation scope, by exactly the configured indentation width; it is   *)
(* never negative; after a block or a multi-line list has finished         *)
(* emitting, normally or by an exception, it equals its value just before  *)
(* that block started; it is 0 at the start and at the end of every        *)
(* traversal.                                                              *)

\* the indentation scopes that are open: each has its finally clause pending
C14_OpenScopes == Cardinality({i \in 1..Len(ctl) : ctl[i] = Dedent})
C14_Entering == Running /\ Top.t = "add_indentation"
C14_Leaving == pc = "run" /\ ctl # <<>> /\ Top.t = "dedent"

\* a step changes the depth only at the two ends of a scope, by the width
C14_Step ==
    /\ C14_Entering => current_indentation' = current_indentation + indentation
    /\ C14_Leaving => current_indentation' = current_indentation - indentation
    /\ ~(C14_Entering \/ C14_Leaving) => current_indentation' = current_indentation
    \* leaving a scope gives what was left of the traversal when it was entered
    /\ C14_Entering =>
           \E k \in 1..Len(ctl') : ctl'[k] = Dedent /\ SubSeq(ctl', k + 1, Len(ctl')) = Tail(ctl)

\* the depth is the width times the number of open scopes: closing a scope,
\* by its last statement or by an exception, restores the depth at its start
C14_Scoped ==
    /\ current_indentation >= 0
    /\ current_indentation = indentation * C14_OpenScopes
    /\ \A i \in 1..Len(ctl) :
           ctl[i].t \in {"wel_after_node", "wel_close"} /\ exc = "none" =>
               ctl[i].indentation0
                   = indentation * Cardinality({j \in i..Len(ctl) : ctl[j] = Dedent})
    /\ Running /\ Top.t = "wel_close" => current_indentation = Top.indentation0
    /\ node_stack = <<>> => current_indentation = 0
    /\ pc \in {"done", "raised"} => current_indentation = 0 /\ C14_OpenScopes = 0

C14_IndentationScopes == [][C14_Step]_vars /\ []C14_Scoped

\* an exception has closed the scope of a multi-line list inside an if block:
\* the open line was indented for the list, the depth is the one of the block
C14_Witness ==
    /\ pc = "run" /\ exc = "NotImplementedError" /\ ctl # <<>>
    /\ tree = Module(<<If(a, <<Expr(List(Items(MaxElts) \o <<Bad>>))>>, <<>>)>>)
    /\ hist.breaks = 1
    /\ Text(current_line) = Spaces(2 * indentation)
    /\ current_indentation = indentation /\ C14_OpenScopes = 1

====
